---- MODULE Spec2Model ----
(***************************************************************************)
(* Amortization recalculation and irregularity detection of                *)
(* flex-analise-backend: FinancialCalculator (Tabela Price, SAC,           *)
(* methodology detection, rate conversion) and RecalculoBacen              *)
(* (recalcular_contrato, validar_contrato).                                *)
(*                                                                         *)
(* Numbers.  Python floats are modelled in fixed point:                    *)
(*   money    : integer multiples of 1/MU currency units (MU = 10^4),      *)
(*   rates    : percentages as integer multiples of 1/RU percent (10^-6),  *)
(*   fractions: decimals (i, (1+i)^n, ...) as multiples of 1/FS (10^-8).   *)
(* Values produced by round(x, 2) are integers counting cents.             *)
(* An absent value (Python None) is the empty tuple, a present value v is  *)
(* the one-element tuple <<v>>.                                            *)
(***************************************************************************)
EXTENDS Integers, Sequences, FiniteSets, TLC

\* op        the operation this run calls,
\* args      its arguments (with what the environment answers: the current
\*           date, the response of the BACEN lookup),
\* pc        "call" before the operation has run, "done" after,
\* ret       what the operation returned (exc # "none": what it raised),
\* recalculo the report recalcular_contrato last built.
VARIABLES op, args, pc, ret, recalculo

vars == <<op, args, pc, ret, recalculo>>

\* ------------------------------------------------------------------------
\* Bounds of the model
\* ------------------------------------------------------------------------
MaxParcelas == 3
MaxPontos == 3

\* ------------------------------------------------------------------------
\* Fixed-point arithmetic
\* ------------------------------------------------------------------------
MU == 10 ^ 4
RU == 10 ^ 6
FS == 10 ^ 8
MaxInt == 2 ^ 30 + (2 ^ 30 - 1)

None == <<>>
Some(v) == <<v>>
IsNone(x) == x = <<>>
Val(x) == x[1]
\* Python truthiness of an Optional[float]: None and 0 are falsy.
Truthy(x) == x # <<>> /\ x[1] # 0

Abs(x) == IF x < 0 THEN -x ELSE x

\* The element of a one-element set.  { F(v) : v \in {e} } evaluates e once
\* and hands F its value.
The(S) == CHOOSE r \in S : TRUE

\* <<q, r>> with a * b = q * c + r, 0 <= r < c, for a, b >= 0 and
\* 0 < c < MaxInt / (2 * MDBase), without ever forming the product a * b:
\* b is consumed one base-MDBase digit at a time.
MDBase == 2 ^ 1
\* One digit t of b: from <<q, r>> for the higher digits to <<q, r>> for all.
MDDigit(a, t, c, q, s) == <<MDBase * q + t * (a \div c) + s \div c, s % c>>

RECURSIVE MD(_, _, _)
MD(a, b, c) ==
    IF b = 0 THEN <<0, 0>>
    ELSE The({ MDDigit(a, b % MDBase, c, h[1],
                       MDBase * h[2] + (b % MDBase) * (a % c)) :
               h \in {MD(a, b \div MDBase, c)} })

MulDivV(a, b, c) ==
    IF a = 0 \/ b = 0 THEN 0
    ELSE IF b <= MaxInt \div a THEN (a * b) \div c
    ELSE MD(a, b, c)[1]

Sign(x) == IF x < 0 THEN -1 ELSE 1

\* a * b / c on fixed-point operands, c # 0.
MulDiv(a0, b0, c0) ==
    The({ Sign(a) * Sign(b) * Sign(c) * MulDivV(Abs(a), Abs(b), Abs(c)) :
          a \in {a0}, b \in {b0}, c \in {c0} })

\* (1 + i) ^ n in units of 1/FS; base is 1 + i in units of 1/FS.
RECURSIVE Pow(_, _)
Pow(base, n) ==
    IF n = 0 THEN FS
    ELSE IF n = 1 THEN base
    ELSE MulDiv(Pow(base, n \div 2), Pow(base, n - n \div 2), FS)

\* round(x, 2) of a money amount x (units of 1/MU): the nearest cent, an
\* exact half going to the even cent.
CentUnit == MU \div 100
Round2(x) ==
    IF \/ 2 * (x % CentUnit) > CentUnit
       \/ 2 * (x % CentUnit) = CentUnit /\ (x \div CentUnit) % 2 = 1
    THEN x \div CentUnit + 1
    ELSE x \div CentUnit

\* A rounded amount (cents) read back as a float (units of 1/MU).
FromCents(c) == c * CentUnit

PctToDec_Milesimos(taxa) == taxa * (FS \div (1000 * RU))

\* taxa / 100.0 : percentage to decimal fraction (units of 1/FS).
PctToDec(taxa) == taxa * (FS \div (100 * RU))
\* decimal * 100.0 : decimal fraction back to a percentage.
DecToPct(d) == d \div (FS \div (100 * RU))

\* ------------------------------------------------------------------------
\* Dates
\* ------------------------------------------------------------------------
IsLeap(y) == (y % 4 = 0 /\ y % 100 # 0) \/ y % 400 = 0

DaysInMonth(y, m) ==
    IF m = 2 THEN (IF IsLeap(y) THEN 29 ELSE 28)
    ELSE IF m \in {4, 6, 9, 11} THEN 30 ELSE 31

Date(y, m, d) == [y |-> y, m |-> m, d |-> d]

\* date + relativedelta(months=1): next month, day clamped to its length.
AddMonth(dt) ==
    LET y2 == IF dt.m = 12 THEN dt.y + 1 ELSE dt.y
        m2 == IF dt.m = 12 THEN 1 ELSE dt.m + 1
        dm == DaysInMonth(y2, m2)
    IN  Date(y2, m2, IF dt.d > dm THEN dm ELSE dt.d)

\* ------------------------------------------------------------------------
\* FinancialCalculator
\* ------------------------------------------------------------------------
Raised(e) == [exc |-> e]
Ok(r) == r.exc = "none"

\* if saldo_devedor < 0.01: saldo_devedor = 0.0
Snap(saldo) == IF saldo < CentUnit THEN 0 ELSE saldo

\* Floats beyond the fixed-point range.  A rate of TAXA_ENORME or more
\* stands for a finite monthly rate of 1e30 %: as a float it is added and
\* multiplied like any other, but math.pow(1 + i, 12) is above the largest
\* float and raises OverflowError, as does math.pow(1 + i, n) from n = 12.
TAXA_ENORME == 2 ^ 30
Enorme(taxa) == taxa >= TAXA_ENORME

\* An amount of 1e29 or more, whose digits are not kept.
MONTANTE_ENORME == MaxInt

\* One entry of the Price schedule at such a rate: interest and instalment
\* are enormous, PMT - juros is 0.0 until the last entry takes the balance.
ParcelaPriceEnorme(k, n, PV, data) ==
    [numero |-> k, data_vencimento |-> data,
     valor_parcela |-> MONTANTE_ENORME, juros |-> MONTANTE_ENORME,
     amortizacao |-> IF k = n THEN Round2(PV) ELSE 0,
     saldo_devedor |-> IF k = n THEN 0 ELSE Round2(PV)]

RECURSIVE DataDaParcela(_, _)
DataDaParcela(data, k) ==
    IF k = 1 THEN data ELSE AddMonth(DataDaParcela(data, k - 1))

\* calcular_tabela_price at such a rate, for counts up to 10
PriceEnorme(PV, n, data) ==
    IF n >= 12 THEN Raised("OverflowError")
    ELSE [exc |-> "none", valor_parcela |-> MONTANTE_ENORME,
          total_pago |-> MONTANTE_ENORME, total_juros |-> MONTANTE_ENORME,
          parcelas |-> [k \in 1..n |->
              ParcelaPriceEnorme(k, n, PV, DataDaParcela(data, k))]]

\* One entry of the SAC schedule at such a rate: the amortization and the
\* balance are the usual ones, interest and instalment are enormous.
ParcelaSacEnorme(k, n, PV, data) ==
    [numero |-> k, data_vencimento |-> data,
     valor_parcela |-> MONTANTE_ENORME, juros |-> MONTANTE_ENORME,
     amortizacao |-> Round2(PV \div n),
     saldo_devedor |-> Round2(Snap(PV - k * (PV \div n)))]

\* calcular_sac at such a rate
SacEnorme(PV, n, data) ==
    [exc |-> "none", valor_parcela_inicial |-> MONTANTE_ENORME,
     valor_parcela_final |-> MONTANTE_ENORME,
     total_pago |-> MONTANTE_ENORME, total_juros |-> MONTANTE_ENORME,
     parcelas |-> [k \in 1..n |->
         ParcelaSacEnorme(k, n, PV, DataDaParcela(data, k))]]

\* the sum of field f over the rows k1..k2, by halves
RECURSIVE SumEntre(_, _, _, _)
SumEntre(rows, f, k1, k2) ==
    IF k1 > k2 THEN 0
    ELSE IF k1 = k2 THEN rows[k1][f]
    ELSE SumEntre(rows, f, k1, (k1 + k2) \div 2)
         + SumEntre(rows, f, (k1 + k2) \div 2 + 1, k2)

SumField(rows, f) == SumEntre(rows, f, 1, Len(rows))

\* parcela_info: one row of a schedule, every amount rounded to cents.
ParcelaInfo(num, row) ==
    [numero          |-> num,
     data_vencimento |-> row.data,
     valor_parcela   |-> Round2(row.valor_parcela),
     juros           |-> Round2(row.juros),
     amortizacao     |-> Round2(row.amortizacao),
     saldo_devedor   |-> Round2(row.saldo_devedor)]

Parcelas(rows) == [k \in 1..Len(rows) |-> ParcelaInfo(k, rows[k])]

Degenerado_SoNegativo(pvO, nO) ==
    IF IsNone(pvO) THEN "TypeError"
    ELSE IF Val(pvO) < 0 THEN "vazio"
    ELSE IF IsNone(nO) THEN "TypeError"
    ELSE IF Val(nO) <= 0 THEN "vazio"
    ELSE "calcula"

\* The guard of both schedule functions.  None <= 0 raises TypeError; `or`
\* does not evaluate numero_parcelas when the principal is already <= 0.
Degenerado(pvO, nO) ==
    IF IsNone(pvO) THEN "TypeError"
    ELSE IF Val(pvO) <= 0 THEN "vazio"
    ELSE IF IsNone(nO) THEN "TypeError"
    ELSE IF Val(nO) <= 0 THEN "vazio"
    ELSE "calcula"

PricePMT_UmaAMais(PV, i, n) ==
    IF i = 0 THEN Some(PV \div (n + 1))
    ELSE The({ IF pw - FS = 0 THEN None
               ELSE Some(MulDiv(PV, MulDiv(MulDiv(i, pw, FS), FS, pw - FS), FS)) :
               pw \in {Pow(FS + i, n)} })

\* PMT of the Tabela Price; <<>> when the denominator is zero.
PricePMT(PV, i, n) ==
    IF i = 0 THEN Some(PV \div n)
    ELSE The({ IF pw - FS = 0 THEN None
               ELSE Some(MulDiv(PV, MulDiv(MulDiv(i, pw, FS), FS, pw - FS), FS)) :
               pw \in {Pow(FS + i, n)} })

\* Amortization of instalment k: the last one takes the whole balance.
PriceAmortizacao(k, n, saldo, PMT, juros) ==
    IF k = n THEN saldo ELSE PMT - juros

\* One turn of the loop of calcular_tabela_price, amounts not yet rounded.
PriceRow(k, n, i, PMT, saldo, data) ==
    The({ [data |-> data,
           valor_parcela |-> IF k = n THEN amort + juros ELSE PMT,
           juros |-> juros, amortizacao |-> amort,
           saldo_devedor |-> Snap(saldo - amort)] :
          <<juros, amort>> \in
             { <<j, PriceAmortizacao(k, n, saldo, PMT, j)>> :
               j \in {MulDiv(saldo, i, FS)} } })

\* The turns k1..k2 of the loop, entered with balance saldo and due date
\* data: the first half of the turns, then the second half from the
\* balance and the date the first half ends with.
RECURSIVE PriceTrecho(_, _, _, _, _, _, _)
PriceTrecho(k1, k2, n, i, PMT, saldo, data) ==
    IF k1 > k2 THEN <<>>
    ELSE IF k1 = k2 THEN <<PriceRow(k1, n, i, PMT, saldo, data)>>
    ELSE The({ a \o PriceTrecho((k1 + k2) \div 2 + 1, k2, n, i, PMT,
                                a[Len(a)].saldo_devedor,
                                AddMonth(a[Len(a)].data)) :
               a \in {PriceTrecho(k1, (k1 + k2) \div 2, n, i, PMT,
                                  saldo, data)} })

\* for num_parcela in range(k, n + 1)
PriceRows(k, n, i, PMT, saldo, data) ==
    PriceTrecho(k, n, n, i, PMT, saldo, data)

\* total_pago = PMT * (n - 1) + parcelas[-1]["valor_parcela"]
PriceTotalPago(PMT, n, parcelas) ==
    PMT * (n - 1) + FromCents(parcelas[Len(parcelas)].valor_parcela)

\* The record calcular_tabela_price returns, from the loop's rows.
PriceResultado(PMT, n, rows, parcelas) ==
    [exc           |-> "none",
     valor_parcela |-> Round2(PMT),
     total_pago    |-> Round2(PriceTotalPago(PMT, n, parcelas)),
     total_juros   |-> Round2(SumField(rows, "juros")),
     parcelas      |-> parcelas]

\* data_primeira_parcela, date.today() when it is absent
DataInicial(dataO, hoje) == IF IsNone(dataO) THEN hoje ELSE Val(dataO)

calcular_tabela_price(pvO, taxa, nO, dataO, hoje) ==
    IF Degenerado(pvO, nO) = "TypeError" THEN Raised("TypeError")
    ELSE IF Degenerado(pvO, nO) = "vazio" THEN
        [exc |-> "none", valor_parcela |-> 0, total_pago |-> 0,
         total_juros |-> 0, parcelas |-> <<>>]
    ELSE IF Enorme(taxa)
    THEN PriceEnorme(Val(pvO), Val(nO), DataInicial(dataO, hoje))
    ELSE The({ IF IsNone(pmtO) THEN Raised("ZeroDivisionError")
               ELSE The({ PriceResultado(Val(pmtO), Val(nO), rows, Parcelas(rows)) :
                          rows \in {PriceRows(1, Val(nO), PctToDec(taxa),
                                              Val(pmtO), Val(pvO),
                                              DataInicial(dataO, hoje))} }) :
               pmtO \in {PricePMT(Val(pvO), PctToDec(taxa), Val(nO))} })

AmortizacaoConstante_MaisUm(PV, n) == PV \div (n + 1)

\* amortizacao_constante = PV / n
AmortizacaoConstante(PV, n) == PV \div n

SacRow_SemJuros(i, am, saldo, data) ==
    The({ [data |-> data, valor_parcela |-> am, juros |-> juros,
           amortizacao |-> am, saldo_devedor |-> Snap(saldo - am)] :
          juros \in {MulDiv(saldo, i, FS)} })

\* One turn of the loop of calcular_sac, amounts not yet rounded.
SacRow(i, am, saldo, data) ==
    The({ [data |-> data, valor_parcela |-> am + juros, juros |-> juros,
           amortizacao |-> am, saldo_devedor |-> Snap(saldo - am)] :
          juros \in {MulDiv(saldo, i, FS)} })

\* The turns k1..k2 of the loop of calcular_sac, by halves.
RECURSIVE SacTrecho(_, _, _, _, _, _)
SacTrecho(k1, k2, i, am, saldo, data) ==
    IF k1 > k2 THEN <<>>
    ELSE IF k1 = k2 THEN <<SacRow(i, am, saldo, data)>>
    ELSE The({ a \o SacTrecho((k1 + k2) \div 2 + 1, k2, i, am,
                              a[Len(a)].saldo_devedor,
                              AddMonth(a[Len(a)].data)) :
               a \in {SacTrecho(k1, (k1 + k2) \div 2, i, am, saldo, data)} })

\* for num_parcela in range(k, n + 1)
SacRows(k, n, i, am, saldo, data) == SacTrecho(k, n, i, am, saldo, data)

\* total_pago = sum(p["valor_parcela"] for p in parcelas), already in cents
SacTotalPago(parcelas) == SumField(parcelas, "valor_parcela")

\* The record calcular_sac returns, from the loop's rows.
SacResultado(rows, parcelas) ==
    [exc                   |-> "none",
     valor_parcela_inicial |-> parcelas[1].valor_parcela,
     valor_parcela_final   |-> parcelas[Len(parcelas)].valor_parcela,
     total_pago            |-> SacTotalPago(parcelas),
     total_juros           |-> Round2(SumField(rows, "juros")),
     parcelas              |-> parcelas]

calcular_sac(pvO, taxa, nO, dataO, hoje) ==
    IF Degenerado(pvO, nO) = "TypeError" THEN Raised("TypeError")
    ELSE IF Degenerado(pvO, nO) = "vazio" THEN
        [exc |-> "none", valor_parcela_inicial |-> 0,
         valor_parcela_final |-> 0, total_pago |-> 0,
         total_juros |-> 0, parcelas |-> <<>>]
    ELSE IF Enorme(taxa)
    THEN SacEnorme(Val(pvO), Val(nO), DataInicial(dataO, hoje))
    ELSE The({ SacResultado(rows, Parcelas(rows)) :
               rows \in {SacRows(1, Val(nO), PctToDec(taxa),
                                 AmortizacaoConstante(Val(pvO), Val(nO)),
                                 Val(pvO), DataInicial(dataO, hoje))} })

\* tolerancia = 0.01, kept as hundredths so that  d <= tolerancia  is
\* 100 * d <= TOLERANCIA_CENT.
TOLERANCIA_CENT == 1

\* abs(v - c) / c <= tolerancia, for amounts v, c in cents and c # 0.
\* With c < 0 the quotient is <= 0 and so within any tolerance.
DentroTolerancia(v, c) ==
    IF c > 0 THEN 100 * Abs(v - c) <= TOLERANCIA_CENT * c
    ELSE TRUE

MaisProximo_Invertido(v1, v2, c) ==
    IF c > 0 THEN Abs(v1 - c) > Abs(v2 - c)
    ELSE Abs(v1 - c) < Abs(v2 - c)

\* abs(v1 - c) / c < abs(v2 - c) / c : dividing by a negative c reverses
\* the order of the absolute differences.
MaisProximo(v1, v2, c) ==
    IF c > 0 THEN Abs(v1 - c) < Abs(v2 - c)
    ELSE Abs(v1 - c) > Abs(v2 - c)

\* Returns [exc, val]: val is <<"price">>, <<"sac">> or None.
\* The comparison of detectar_metodologia_amortizacao: vp and vs are the
\* computed Price and first SAC instalments, contrato the stated one.
Deteccao(vp, vs, contrato) ==
    IF contrato = 0 THEN Raised("ZeroDivisionError")
    ELSE IF DentroTolerancia(vp, contrato) /\ MaisProximo(vp, vs, contrato)
    THEN [exc |-> "none", val |-> Some("price")]
    ELSE IF DentroTolerancia(vs, contrato) /\ MaisProximo(vs, vp, contrato)
    THEN [exc |-> "none", val |-> Some("sac")]
    ELSE [exc |-> "none", val |-> None]

detectar_metodologia_amortizacao(pvO, taxa, nO, contrato, hoje) ==
    The({ IF ~Ok(rp) THEN Raised(rp.exc)
          ELSE The({ IF ~Ok(rs) THEN Raised(rs.exc)
                     ELSE Deteccao(rp.valor_parcela, rs.valor_parcela_inicial,
                                   contrato) :
                     rs \in {calcular_sac(pvO, taxa, nO, None, hoje)} }) :
          rp \in {calcular_tabela_price(pvO, taxa, nO, None, hoje)} })

\* math.pow(A, 1/12) for A >= 1 (units of 1/FS): Newton steps from the
\* upper estimate 1 + (A - 1) / 12, then the largest x nearby with
\* x ^ 12 <= A.
NewtonStep(A, x0) ==
    The({ IF p[2] <= A THEN p[1]
          ELSE p[1] - MulDiv(p[2] - A, p[1], p[2]) \div 12 :
          p \in { <<x, Pow(x, 12)>> : x \in {x0} } })

Root12Near(A, x3) ==
    The({ IF near = {} THEN x3 - 3
          ELSE CHOOSE x \in near : \A y \in near : y <= x :
          near \in { {x \in (x3 - 3) .. (x3 + 3) : Pow(x, 12) <= A} } })

Root12(A0) ==
    The({ The({ Root12Near(A, x3) :
                x3 \in {NewtonStep(A, NewtonStep(A,
                            NewtonStep(A, FS + (A - FS) \div 12)))} }) :
          A \in {A0} })

converter_taxa_anual_para_mensal(taxa_anual) ==
    IF taxa_anual <= 0 THEN 0
    ELSE DecToPct(Root12(FS + PctToDec(taxa_anual)) - FS)

converter_taxa_mensal_para_anual(taxa_mensal) ==
    IF taxa_mensal <= 0 THEN 0
    ELSE DecToPct(Pow(FS + PctToDec(taxa_mensal), 12) - FS)

\* ------------------------------------------------------------------------
\* RecalculoBacen
\* ------------------------------------------------------------------------
\* A date argument is a string: absent, empty, "YYYY-MM-DD", "DD/MM/YYYY"
\* or text in neither format.
NoDate == [fmt |-> "none", dt |-> Date(0, 0, 0)]
DateStr(fmt, dt) == [fmt |-> fmt, dt |-> dt]

parse_date(s) ==
    IF s.fmt \in {"none", "empty"} THEN None
    ELSE IF s.fmt = "iso" THEN Some(s.dt)
    ELSE IF s.fmt = "br" THEN Some(s.dt)
    ELSE None

\* a or b, for Optional dates (a date object is always truthy)
OrElse(a, b) == IF IsNone(a) THEN b ELSE a

\* str.lower() / str.upper() on the index names the model uses
Lower(s) == IF s = "SELIC" THEN "selic" ELSE IF s = "CDI" THEN "cdi" ELSE s
Upper(s) == IF s = "selic" THEN "SELIC" ELSE IF s = "cdi" THEN "CDI"
            ELSE IF s = "ipca" THEN "IPCA" ELSE s

\* taxa_juros_contrato or 0.0
OrZero(x) == IF Truthy(x) THEN Val(x) ELSE 0

ERRO_TAXA == "Taxa de juros nao disponivel para recalculo"

\* resultado as built at the top of recalcular_contrato.  passos records
\* the collaborator calls made, in order.
ResultadoInicial(taxaO) ==
    [exc |-> "none", sucesso |-> FALSE, erro |-> None,
     metodologia_detectada |-> None, taxa_bacen |-> None,
     taxa_contrato |-> taxaO, diferenca_taxa |-> None,
     recalculo_price |-> None, recalculo_sac |-> None, comparacao |-> None,
     aviso_taxa_posfixada |-> None, taxa_bacen_mensal |-> None,
     taxa_efetiva_mensal |-> None, passos |-> <<>>]

RecalculoCaptura_Propaga(res, e) == [res EXCEPT !.exc = e]

\* except Exception as e: resultado["erro"] = str(e); sucesso = False
RecalculoCaptura(res, e) ==
    [res EXCEPT !.erro = Some(e), !.sucesso = FALSE]

TaxaEstimada_Zero(taxaO) == 0

\* taxa_efetiva = taxa_juros_contrato or 0.0, when the lookup found nothing
TaxaEstimada(taxaO) == OrZero(taxaO)

\* The BACEN branch: [exc, res, taxa_efetiva, taxa_bacen].  lookup is what
\* buscar_taxa_selic / buscar_cdi returns for this request.
\* taxa_bacen of the posfixada branch: only SELIC and CDI are looked up.
TaxaBacen(idx, lookup) == IF idx \in {"selic", "cdi"} THEN lookup ELSE None

\* The collaborator call the posfixada branch makes for an index name.
PassoBacen(idx) ==
    IF idx = "selic" THEN <<"buscar_taxa_selic">>
    ELSE IF idx = "cdi" THEN <<"buscar_cdi">> ELSE <<>>

\* taxa_efetiva = taxa_bacen_mensal + spread, the contract rate being the spread
TaxaEfetiva(mensal, taxaO) ==
    IF Truthy(taxaO) THEN mensal + Val(taxaO) ELSE mensal

\* if taxa_bacen: the reference rate was found.
TaxaEncontrada(r1, taxaO, idxO, data_contrato, tb, mensal) ==
    [exc |-> "none",
     res |-> [r1 EXCEPT
        !.taxa_bacen = tb,
        !.taxa_bacen_mensal = Some(mensal),
        !.taxa_efetiva_mensal = Some(TaxaEfetiva(mensal, taxaO)),
        !.aviso_taxa_posfixada =
            Some([msg |-> "taxa provisoria do indexador",
                  indexador |-> Upper(Val(idxO)),
                  data |-> data_contrato, taxa |-> Val(tb)])],
     taxa_efetiva |-> TaxaEfetiva(mensal, taxaO), taxa_bacen |-> tb]

\* else: the reference rate was not found.
TaxaNaoEncontrada(r1, taxaO, idxO, data_contrato, tb) ==
    [exc |-> "none",
     res |-> [r1 EXCEPT !.aviso_taxa_posfixada =
                Some([msg |-> "indexador nao encontrado, usando taxa do contrato",
                      indexador |-> Upper(Val(idxO)),
                      data |-> data_contrato, taxa |-> 0])],
     taxa_efetiva |-> TaxaEstimada(taxaO), taxa_bacen |-> tb]

ResolverPosfixada(res, taxaO, idxO, data_contrato, tb, passo) ==
    IF Truthy(tb)
    THEN The({ TaxaEncontrada([res EXCEPT !.passos = @ \o passo], taxaO,
                              idxO, data_contrato, tb, mensal) :
               mensal \in {converter_taxa_anual_para_mensal(Val(tb))} })
    ELSE TaxaNaoEncontrada([res EXCEPT !.passos = @ \o passo], taxaO, idxO,
                           data_contrato, tb)

ResolverTaxa(res, taxaO, tipo_taxa, idxO, data_contrato, lookup) ==
    IF tipo_taxa = "posfixada" THEN
        IF IsNone(idxO) THEN
            [exc |-> "AttributeError", res |-> res, taxa_efetiva |-> 0,
             taxa_bacen |-> None]
        ELSE ResolverPosfixada(res, taxaO, idxO, data_contrato,
                               TaxaBacen(Lower(Val(idxO)), lookup),
                               PassoBacen(Lower(Val(idxO))))
    ELSE [exc |-> "none", res |-> res, taxa_efetiva |-> OrZero(taxaO),
          taxa_bacen |-> None]

\* if valor_parcela_contrato: diferenca_* = abs(valor - contrato)
Comparacao(parcelaO, rp, rs) ==
    [valor_parcela_contrato    |-> parcelaO,
     valor_parcela_price       |-> rp.valor_parcela,
     valor_parcela_sac_inicial |-> rs.valor_parcela_inicial,
     diferenca_price |-> IF Truthy(parcelaO)
                         THEN Some(Abs(rp.valor_parcela - Val(parcelaO)))
                         ELSE None,
     diferenca_sac   |-> IF Truthy(parcelaO)
                         THEN Some(Abs(rs.valor_parcela_inicial - Val(parcelaO)))
                         ELSE None,
     total_pago_price  |-> rp.total_pago,
     total_pago_sac    |-> rs.total_pago,
     total_juros_price |-> rp.total_juros,
     total_juros_sac   |-> rs.total_juros]

\* if taxa_bacen and taxa_juros_contrato: diferenca_taxa = ...
DiferencaTaxa(tb, taxaO) ==
    IF Truthy(tb) /\ Truthy(taxaO)
    THEN Some(Abs(converter_taxa_mensal_para_anual(Val(taxaO)) - Val(tb)))
    ELSE None

\* converter_taxa_mensal_para_anual raises OverflowError on the contract rate
DiferencaTaxaEstoura(tb, taxaO) ==
    Truthy(tb) /\ Truthy(taxaO) /\ Enorme(Val(taxaO))

\* if not metodologia and valor_parcela_contrato: detect the methodology
Detecta(metO, parcelaO) == IsNone(metO) /\ Truthy(parcelaO)

RecalculoSac_SemTabela(r4, taxaO, parcelaO, tb, rp, rs) ==
    IF ~Ok(rs) THEN RecalculoCaptura(r4, rs.exc)
    ELSE IF DiferencaTaxaEstoura(tb, taxaO)
    THEN RecalculoCaptura(
             [r4 EXCEPT !.comparacao = Some(Comparacao(parcelaO, rp, rs))],
             "OverflowError")
    ELSE [r4 EXCEPT
            !.comparacao = Some(Comparacao(parcelaO, rp, rs)),
            !.diferenca_taxa = DiferencaTaxa(tb, taxaO),
            !.sucesso = TRUE]

\* Lines 143-175: the SAC schedule, the comparison and the rate difference.
RecalculoSac(r4, taxaO, parcelaO, tb, rp, rs) ==
    IF ~Ok(rs) THEN RecalculoCaptura(r4, rs.exc)
    ELSE IF DiferencaTaxaEstoura(tb, taxaO)
    THEN RecalculoCaptura(
             [r4 EXCEPT !.recalculo_sac = Some(rs),
                        !.comparacao = Some(Comparacao(parcelaO, rp, rs))],
             "OverflowError")
    ELSE [r4 EXCEPT
            !.recalculo_sac = Some(rs),
            !.comparacao = Some(Comparacao(parcelaO, rp, rs)),
            !.diferenca_taxa = DiferencaTaxa(tb, taxaO),
            !.sucesso = TRUE]

\* Lines 134-140: the Price schedule, then the rest.
RecalculoPrice(r3, pvO, taxaO, nO, parcelaO, efet, tb, dprim, hoje, rp) ==
    IF ~Ok(rp) THEN RecalculoCaptura(r3, rp.exc)
    ELSE The({ RecalculoSac([r3 EXCEPT !.recalculo_price = Some(rp),
                                       !.passos = @ \o <<"sac">>],
                            taxaO, parcelaO, tb, rp, rs) :
               rs \in {calcular_sac(pvO, efet, nO, Some(dprim), hoje)} })

\* Lines 123-131: what the detection left, then the rest.
RecalculoDetectado(r2, pvO, taxaO, nO, parcelaO, efet, tb, dprim, hoje, det) ==
    IF ~Ok(det) THEN RecalculoCaptura(r2, det.exc)
    ELSE The({ RecalculoPrice([r2 EXCEPT !.metodologia_detectada = det.val,
                                         !.passos = @ \o <<"price">>],
                              pvO, taxaO, nO, parcelaO, efet, tb, dprim, hoje,
                              rp) :
               rp \in {calcular_tabela_price(pvO, efet, nO, Some(dprim), hoje)} })

\* Lines 123-175: detection, both schedules, comparison.
RecalculoCorpo(r1, pvO, taxaO, nO, parcelaO, metO, efet, tb, dprim, hoje) ==
    IF Detecta(metO, parcelaO)
    THEN The({ RecalculoDetectado([r1 EXCEPT !.passos = @ \o <<"detectar">>],
                                  pvO, taxaO, nO, parcelaO, efet, tb, dprim,
                                  hoje, det) :
               det \in {detectar_metodologia_amortizacao(pvO, efet, nO,
                                                         Val(parcelaO), hoje)} })
    ELSE RecalculoDetectado(r1, pvO, taxaO, nO, parcelaO, efet, tb, dprim,
                            hoje, [exc |-> "none", val |-> None])

DataContrato_PrimeiraAntes(dcontr, dprimS, hoje) ==
    Val(OrElse(parse_date(dprimS), OrElse(parse_date(dcontr), Some(hoje))))

\* data_contrato_obj = parse_date(data_contrato) or parse_date(data_primeira
\* _parcela) or date.today()
DataContrato(dcontr, dprimS, hoje) ==
    Val(OrElse(parse_date(dcontr), OrElse(parse_date(dprimS), Some(hoje))))

\* data_primeira_obj = parse_date(data_primeira_parcela) or data_contrato_obj
DataPrimeiraParcela(dprimS, dc) == Val(OrElse(parse_date(dprimS), Some(dc)))

TaxaIndisponivel_SoZero(efet) == efet = 0

\* if taxa_efetiva <= 0
TaxaIndisponivel(efet) == efet <= 0

\* Lines 119-175: the rate check, then the body.  t is what the rate branch
\* left: [exc, res, taxa_efetiva, taxa_bacen].
RecalculoComTaxa(t, pvO, taxaO, nO, parcelaO, metO, dprim, hoje) ==
    IF t.exc # "none" THEN RecalculoCaptura(t.res, t.exc)
    ELSE IF TaxaIndisponivel(t.taxa_efetiva)
    THEN [t.res EXCEPT !.erro = Some(ERRO_TAXA)]
    ELSE RecalculoCorpo(t.res, pvO, taxaO, nO, parcelaO, metO,
                        t.taxa_efetiva, t.taxa_bacen, dprim, hoje)

recalcular_contrato(pvO, taxaO, nO, parcelaO, dcontr, dprimS, tipo_taxa, idxO, metO, lookup, hoje) ==
    The({ The({ RecalculoComTaxa(t, pvO, taxaO, nO, parcelaO, metO,
                                 DataPrimeiraParcela(dprimS, dc), hoje) :
                t \in {ResolverTaxa(ResultadoInicial(taxaO), taxaO, tipo_taxa,
                                    idxO, dc, lookup)} }) :
          dc \in {DataContrato(dcontr, dprimS, hoje)} })

\* Tolerance of R$ 1,00 of validar_contrato, in cents.
TOLERANCIA_REAIS == 100

AcimaTolerancia_Inclusive(diffO) ==
    Truthy(diffO) /\ Val(diffO) >= TOLERANCIA_REAIS

\* if diff and diff > 1.0
AcimaTolerancia(diffO) == Truthy(diffO) /\ Val(diffO) > TOLERANCIA_REAIS

ValidacaoInicial ==
    [exc |-> "none", valido |-> TRUE, irregularidades |-> <<>>,
     aviso |-> <<>>, metodologia |-> None]

ValidarComparacao_SacInvalida(v, parcelaO, rec) ==
    IF Truthy(parcelaO) /\ ~IsNone(rec.comparacao) THEN
        [v EXCEPT
           !.irregularidades =
               IF AcimaTolerancia(Val(rec.comparacao).diferenca_price)
               THEN Append(@, [msg |-> "divergencia no valor da parcela",
                               contrato |-> Val(parcelaO),
                               calculado |-> Val(rec.recalculo_price).valor_parcela,
                               diferenca |-> Val(Val(rec.comparacao).diferenca_price)])
               ELSE @,
           !.aviso =
               IF AcimaTolerancia(Val(rec.comparacao).diferenca_sac)
               THEN Append(@, [msg |-> "se for SAC, divergencia",
                               calculado |-> Val(rec.recalculo_sac).valor_parcela_inicial,
                               diferenca |-> Val(Val(rec.comparacao).diferenca_sac)])
               ELSE @,
           !.valido =
               ~(\/ AcimaTolerancia(Val(rec.comparacao).diferenca_price)
                 \/ AcimaTolerancia(Val(rec.comparacao).diferenca_sac))]
    ELSE v

\* The comparison block of validar_contrato (lines 217-235).
ValidarComparacao(v, parcelaO, rec) ==
    IF Truthy(parcelaO) /\ ~IsNone(rec.comparacao) THEN
        LET cmp == Val(rec.comparacao)
            dp  == cmp.diferenca_price
            ds  == cmp.diferenca_sac
            v1  == IF AcimaTolerancia(dp)
                   THEN [v EXCEPT
                          !.irregularidades = Append(@,
                              [msg |-> "divergencia no valor da parcela",
                               contrato |-> Val(parcelaO),
                               calculado |-> Val(rec.recalculo_price).valor_parcela,
                               diferenca |-> Val(dp)]),
                          !.valido = FALSE]
                   ELSE v
        IN  IF AcimaTolerancia(ds)
            THEN [v1 EXCEPT !.aviso = Append(@,
                     [msg |-> "se for SAC, divergencia",
                      calculado |-> Val(rec.recalculo_sac).valor_parcela_inicial,
                      diferenca |-> Val(ds)])]
            ELSE v1
    ELSE v

\* The methodology block of validar_contrato (lines 237-241).
ValidarMetodologia(v, rec) ==
    IF ~IsNone(rec.metodologia_detectada)
    THEN [v EXCEPT !.metodologia = rec.metodologia_detectada]
    ELSE [v EXCEPT !.aviso = Append(@,
             [msg |-> "nao foi possivel detectar a metodologia"])]

\* The report validar_contrato works on: every argument it does not pass
\* takes the default of recalcular_contrato.
RecalculoDaValidacao(pvO, taxaO, nO, parcelaO, dcontr, hoje) ==
    recalcular_contrato(pvO, taxaO, nO, parcelaO, dcontr, NoDate,
                        "prefixada", Some("selic"), None, None, hoje)

ValidarRecalculo_Continua(v0, parcelaO, rec) ==
    IF rec.exc # "none"
    THEN [v0 EXCEPT !.aviso = Append(@,
             [msg |-> "erro na validacao", erro |-> rec.exc])]
    ELSE IF ~rec.sucesso
    THEN ValidarMetodologia(
             [v0 EXCEPT !.aviso = Append(@,
                 [msg |-> "nao foi possivel recalcular", erro |-> rec.erro])],
             rec)
    ELSE The({ ValidarMetodologia(v1, rec) :
               v1 \in {ValidarComparacao(v0, parcelaO, rec)} })

\* Lines 213-244: the validation built from the report rec.
ValidarRecalculo(v0, parcelaO, rec) ==
    IF rec.exc # "none"
    THEN [v0 EXCEPT !.aviso = Append(@,
             [msg |-> "erro na validacao", erro |-> rec.exc])]
    ELSE IF ~rec.sucesso
    THEN [v0 EXCEPT !.aviso = Append(@,
             [msg |-> "nao foi possivel recalcular", erro |-> rec.erro])]
    ELSE The({ ValidarMetodologia(v1, rec) :
               v1 \in {ValidarComparacao(v0, parcelaO, rec)} })

validar_contrato(pvO, taxaO, nO, parcelaO, dcontr, hoje) ==
    The({ ValidarRecalculo(ValidacaoInicial, parcelaO, rec) :
          rec \in {RecalculoDaValidacao(pvO, taxaO, nO, parcelaO, dcontr,
                                        hoje)} })

\* ------------------------------------------------------------------------
\* BacenIntegration
\* ------------------------------------------------------------------------
\* date - relativedelta(days=1)
DiaAnterior(dt) ==
    IF dt.d > 1 THEN Date(dt.y, dt.m, dt.d - 1)
    ELSE IF dt.m > 1 THEN Date(dt.y, dt.m - 1, DaysInMonth(dt.y, dt.m - 1))
    ELSE Date(dt.y - 1, 12, 31)

\* date + relativedelta(days=1)
DiaSeguinte(dt) ==
    IF dt.d < DaysInMonth(dt.y, dt.m) THEN Date(dt.y, dt.m, dt.d + 1)
    ELSE IF dt.m < 12 THEN Date(dt.y, dt.m + 1, 1)
    ELSE Date(dt.y + 1, 1, 1)

\* date + relativedelta(days=n), n of either sign
RECURSIVE MaisDias(_, _)
MaisDias(dt, n) ==
    IF n = 0 THEN dt
    ELSE IF n > 0 THEN MaisDias(DiaSeguinte(dt), n - 1)
    ELSE MaisDias(DiaAnterior(dt), n + 1)

\* days fetched before and after the target date of a daily series
JANELA_DIAS == 5

FimDoMes_Trinta(data) == Date(data.y, data.m, 30)

\* data_fim of a monthly series: 31 December, or the day before the first
\* of the next month
FimDoMes(data) ==
    IF data.m = 12 THEN Date(data.y, 12, 31)
    ELSE DiaAnterior(Date(data.y, data.m + 1, 1))

\* dataInicial and dataFinal of the GET request (lines 100-118)
PedidoBacen(diaria, data) ==
    IF ~diaria
    THEN [inicio |-> Date(data.y, data.m, 1), fim |-> FimDoMes(data)]
    ELSE [inicio |-> MaisDias(data, -JANELA_DIAS),
          fim |-> MaisDias(data, JANELA_DIAS)]

\* A point of the response is {"data": ..., "valor": ...}.  data is a
\* "DD/MM/YYYY" string (fmt "br"), a string that is no date (fmt "bad") or
\* missing (fmt "none"); valor is a numeric string (tipo "num", v in units
\* of 1/RU), null (tipo "nulo") or a string that is no number ("invalido").
Ponto(data, valor) == [data |-> data, valor |-> valor]

\* item_data <= data, on date objects
DateLE(a, b) ==
    \/ a.y < b.y
    \/ a.y = b.y /\ a.m < b.m
    \/ a.y = b.y /\ a.m = b.m /\ a.d <= b.d

\* float(valor) if valor is not None else None
FloatDe(valor) ==
    IF valor.tipo = "nulo" THEN [exc |-> "none", val |-> None]
    ELSE IF valor.tipo = "invalido" THEN [exc |-> "ValueError", val |-> None]
    ELSE [exc |-> "none", val |-> Some(valor.v)]

\* The return on the point dados[k]; ponto records which point was taken.
ValorDoPonto(dados, k) ==
    [exc |-> FloatDe(dados[k].valor).exc, val |-> FloatDe(dados[k].valor).val,
     ponto |-> k]

\* item.get("data") == data_str, data_str being the target as DD/MM/YYYY
DataIgual(item, data) == item.data.fmt = "br" /\ item.data.dt = data

\* for item in dados: the first point dated exactly data, 0 when none is
RECURSIVE PrimeiroExato(_, _, _)
PrimeiroExato(dados, k, data) ==
    IF k > Len(dados) THEN 0
    ELSE IF DataIgual(dados[k], data) THEN k
    ELSE PrimeiroExato(dados, k + 1, data)

\* for item in reversed(dados): the first point from the end dated on or
\* before data; 0 when none is, -1 when strptime raises on the way.
RECURSIVE UltimoAteData(_, _, _)
UltimoAteData(dados, k, data) ==
    IF k = 0 THEN 0
    ELSE IF dados[k].data.fmt # "br" THEN -1
    ELSE IF DateLE(dados[k].data.dt, data) THEN k
    ELSE UltimoAteData(dados, k - 1, data)

BuscaAnterior_SempreUltimo(dados, k) ==
    IF k = -1 THEN [exc |-> "ValueError", val |-> None, ponto |-> 0]
    ELSE ValorDoPonto(dados, Len(dados))

\* Lines 136-140 and the fallback of lines 151-154, k being the outcome of
\* the reversed search.
BuscaAnterior(dados, k) ==
    IF k = -1 THEN [exc |-> "ValueError", val |-> None, ponto |-> 0]
    ELSE IF k = 0 THEN ValorDoPonto(dados, Len(dados))
    ELSE ValorDoPonto(dados, k)

\* Lines 129-140: the daily series.
BuscaDiaria(dados, data) ==
    IF PrimeiroExato(dados, 1, data) # 0
    THEN ValorDoPonto(dados, PrimeiroExato(dados, 1, data))
    ELSE BuscaAnterior(dados, UltimoAteData(dados, Len(dados), data))

\* item.get("data").endswith("MM/YYYY")
TerminaComMes(item, data) ==
    item.data.fmt = "br" /\ item.data.dt.m = data.m /\ item.data.dt.y = data.y

\* for item in reversed(dados): the first point from the end tagged with
\* the month of data; 0 when none is, -1 when a point has no data.
RECURSIVE UltimoDoMes(_, _, _)
UltimoDoMes(dados, k, data) ==
    IF k = 0 THEN 0
    ELSE IF dados[k].data.fmt = "none" THEN -1
    ELSE IF TerminaComMes(dados[k], data) THEN k
    ELSE UltimoDoMes(dados, k - 1, data)

\* Lines 141-154: the monthly series.
BuscaMensal(dados, k) ==
    IF k = -1 THEN [exc |-> "AttributeError", val |-> None, ponto |-> 0]
    ELSE IF k = 0 THEN ValorDoPonto(dados, Len(dados))
    ELSE ValorDoPonto(dados, k)

BacenCaptura_Propaga(r) == r

\* except RequestException / except Exception: return None
BacenCaptura(r) ==
    IF r.exc # "none" THEN [exc |-> "none", val |-> None, ponto |-> 0] ELSE r

\* resposta is what the GET gave: tipo "rede" (the request failed), "http"
\* (raise_for_status raised), "json" (response.json() raised) or "ok" with
\* the decoded array dados.
buscar_taxa_por_codigo(diaria, data, resposta) ==
    IF resposta.tipo \in {"rede", "http"}
    THEN BacenCaptura([exc |-> "RequestException", val |-> None, ponto |-> 0])
    ELSE IF resposta.tipo = "json"
    THEN BacenCaptura([exc |-> "ValueError", val |-> None, ponto |-> 0])
    ELSE IF resposta.dados = <<>>
    THEN [exc |-> "none", val |-> None, ponto |-> 0]
    ELSE IF diaria THEN BacenCaptura(BuscaDiaria(resposta.dados, data))
    ELSE BacenCaptura(BuscaMensal(resposta.dados,
             UltimoDoMes(resposta.dados, Len(resposta.dados), data)))

SERIES_CODES ==
    [selic_diaria |-> 11, selic_mensal |-> 432, cdi_diario |-> 12,
     ipca_mensal |-> 433, ipca_acumulado_12m |-> 13522]

\* The three public lookups; codigo records the series that was asked for.
buscar_taxa_selic(data, diaria, resposta) ==
    buscar_taxa_por_codigo(diaria, data, resposta)
        @@ [codigo |-> IF diaria THEN SERIES_CODES.selic_diaria
                       ELSE SERIES_CODES.selic_mensal]

buscar_cdi(data, resposta) ==
    buscar_taxa_por_codigo(TRUE, data, resposta)
        @@ [codigo |-> SERIES_CODES.cdi_diario]

buscar_ipca(data, acumulado_12m, resposta) ==
    buscar_taxa_por_codigo(FALSE, data, resposta)
        @@ [codigo |-> IF acumulado_12m THEN SERIES_CODES.ipca_acumulado_12m
                       ELSE SERIES_CODES.ipca_mensal]

\* ------------------------------------------------------------------------
\* ContractExtractorMultiplo (src/extractors/contract_extractor_multiplo.py)
\* ------------------------------------------------------------------------
\* Truthiness of an Optional[str] holding a date: None and "" are falsy.
TextoPresente(s) == s.fmt \notin {"none", "empty"}

\* The guard of _aplicar_recalculo_bacen: all four fields are truthy.
DadosSuficientes(result) ==
    /\ Truthy(result.valor_divida) /\ Truthy(result.quantidade_parcelas)
    /\ Truthy(result.taxa_juros)
    /\ TextoPresente(result.data_vencimento_primeira)

ChamarRecalculador_Posfixada(result, recalculador, lookup, hoje) ==
    IF recalculador = "levanta" THEN Raised("RuntimeError")
    ELSE recalcular_contrato(result.valor_divida, result.taxa_juros,
             result.quantidade_parcelas, result.valor_parcela,
             result.data_vencimento_primeira, result.data_vencimento_primeira,
             "posfixada", Some("selic"), None, lookup, hoje)

\* What self.recalculador.recalcular_contrato gives: the report of the
\* real recalculator called with tipo_taxa="prefixada", indexador="selic",
\* or an exception when the recalculator in place raises.
ChamarRecalculador(result, recalculador, lookup, hoje) ==
    IF recalculador = "levanta" THEN Raised("RuntimeError")
    ELSE recalcular_contrato(result.valor_divida, result.taxa_juros,
             result.quantidade_parcelas, result.valor_parcela,
             result.data_vencimento_primeira, result.data_vencimento_primeira,
             "prefixada", Some("selic"), None, lookup, hoje)

\* if diff > 1.0, in cents
DIVERGENCIA_MINIMA == 100

AVISO_DIVERGENCIA == "RECALCULO BACEN: divergencia detectada"

\* The note added to observacoes when the stated instalment is more than
\* R$ 1,00 away from the Price instalment. observacoes is an Optional
\* sequence of pieces of text; None and the empty text are replaced.
ComAviso(result, rec) ==
    IF /\ ~IsNone(rec.comparacao)
       /\ Truthy(Val(rec.comparacao).diferenca_price)
       /\ Val(Val(rec.comparacao).diferenca_price) > DIVERGENCIA_MINIMA
    THEN [result EXCEPT !.observacoes =
            IF IsNone(@) \/ Val(@) = <<>> THEN Some(<<AVISO_DIVERGENCIA>>)
            ELSE Some(Append(Val(@), AVISO_DIVERGENCIA))]
    ELSE result

AnexarRelatorio_Sempre(result, rec) ==
    IF rec.exc # "none" THEN result
    ELSE ComAviso([result EXCEPT !.recalculo_bacen = Some(rec)], rec)

\* The body of the try: attach the report when it has sucesso, add the
\* note; except Exception leaves result as it is.
AnexarRelatorio(result, rec) ==
    IF rec.exc # "none" THEN result
    ELSE IF rec.sucesso
    THEN ComAviso([result EXCEPT !.recalculo_bacen = Some(rec)], rec)
    ELSE result

\* Returns the ContratoInfo; relatorio records what the recalculator gave
\* (None when it was not called or raised).
aplicar_recalculo_bacen(result, rec) ==
    IF ~DadosSuficientes(result)
    THEN [exc |-> "none", result |-> result, relatorio |-> None]
    ELSE [exc |-> "none", result |-> AnexarRelatorio(result, rec),
          relatorio |-> IF rec.exc = "none" THEN Some(rec) ELSE None]

\* ------------------------------------------------------------------------
\* ContractExtractorMultiplo: truncation and extraction with retries
\* ------------------------------------------------------------------------
\* A text is known by its pieces: stretches de..ate of the cleaned text
\* and the marker the truncation inserts.
Trecho(de, ate) == [parte |-> "texto", de |-> de, ate |-> ate]

\* len("\n\n[... texto intermediário removido para reduzir tamanho ...]\n\n")
MARCADOR_LEN == 63

MARCADOR == [parte |-> "marcador", de |-> 1, ate |-> MARCADOR_LEN]

\* the cleaned text of n characters
TextoDe(n) == IF n = 0 THEN <<>> ELSE <<Trecho(1, n)>>

RECURSIVE Tamanho(_)
\* len(text)
Tamanho(pecas) ==
    IF pecas = <<>> THEN 0
    ELSE Head(pecas).ate - Head(pecas).de + 1 + Tamanho(Tail(pecas))

\* int(max_chars * 0.65) and int(max_chars * 0.30); the products are whole
\* numbers for the sizes the extractor uses.
CharsInicio(max_chars) == (max_chars * 65) \div 100
CharsFim(max_chars) == (max_chars * 30) \div 100

\* _truncar_texto_inteligente on a text of n characters:
\* text[:chars_inicio] + marker + text[-chars_fim:]
truncar_texto_inteligente(n, max_chars) ==
    IF n <= max_chars THEN TextoDe(n)
    ELSE <<Trecho(1, CharsInicio(max_chars)), MARCADOR,
           Trecho(n - CharsFim(max_chars) + 1, n)>>

\* The text of a contract: bruto and limpo are len(text) and
\* len(clean_text(text)); clean_text strips every line and drops the
\* empty ones, so limpo = 0 exactly when text.strip() is empty.  cnpj is
\* the bank whose CNPJ the text carries.
Texto(bruto, limpo, cnpj) == [bruto |-> bruto, limpo |-> limpo, cnpj |-> cnpj]

\* What one chain.invoke gives: a ContratoInfo, or an exception whose
\* message passes or not each of the three tests of the handler.
Extraido(result) == [ok |-> TRUE, result |-> result]
Falha(classe, parse, tokens, rate) ==
    [ok |-> FALSE, classe |-> classe, parse |-> parse, tokens |-> tokens,
     rate |-> rate]

\* "Failed to parse" in msg or "parse" / "json" / "validation error" in lower
ErroParse(e) == e.parse
\* "413" in msg or "too large" / "tokens per minute" / "tpm" in lower
ErroTokens(e) == e.tokens
\* "rate_limit" / "429" / "tokens per day" / "rate limit reached"
ErroRate(e) == e.rate

\* One chain.invoke: the size asked for and the text sent.
Chamada(text, max_chars) ==
    [max_chars |-> max_chars,
     enviado |-> truncar_texto_inteligente(text.limpo, max_chars)]

\* not result.banco_credor or result.banco_credor.strip() == ""
BancoAusente(b) == IsNone(b) \/ Val(b) \in {"", " "}

\* The bank found by CNPJ replaces a missing one.
ComBanco(result, text) ==
    IF BancoAusente(result.banco_credor) /\ ~IsNone(text.cnpj)
    THEN [result EXCEPT !.banco_credor = text.cnpj]
    ELSE result

\* _aplicar_recalculo_bacen on the extracted record, with the real
\* recalculator.
PosProcessar(result, lookup, hoje) ==
    aplicar_recalculo_bacen(result,
        IF DadosSuficientes(result)
        THEN ChamarRecalculador(result, "real", lookup, hoje)
        ELSE Raised("nao chamado"))

\* return result, after the bank detection and the recalculation
Retornar(text, saida, chs, sds, lookup, hoje) ==
    The({ [exc |-> "none", msg |-> "", causa |-> None,
           result |-> Some(ap.result), relatorio |-> ap.relatorio,
           chamadas |-> chs, saidas |-> sds] :
          ap \in {PosProcessar(ComBanco(saida.result, text), lookup, hoje)} })

\* raise: classe and msg name the exception, causa the error it reports
Levantar(classe, msg, causa, chs, sds) ==
    [exc |-> classe, msg |-> msg, causa |-> causa, result |-> None,
     relatorio |-> None, chamadas |-> chs, saidas |-> sds]

\* tamanhos = [2000, 1500, 1000]
TAMANHOS == <<2000, 1500, 1000>>

ContinuaReduzindo_Sempre(e) == TRUE

\* except Exception as e2: a token-limit message goes on to the next
\* size, any other error is raised again.
ContinuaReduzindo(e) == ErroTokens(e)

RECURSIVE TentarReduzido(_, _, _, _, _, _)
\* The loop over tamanhos, at its k-th size; saidas[k + 1] is what the
\* call gives.  After the last size the "too large" error is raised.
TentarReduzido(text, saidas, k, chs, lookup, hoje) ==
    IF k > Len(TAMANHOS)
    THEN Levantar("Exception", "muito_grande", Some(saidas[k]), chs,
                  SubSeq(saidas, 1, k))
    ELSE IF saidas[k + 1].ok
    THEN Retornar(text, saidas[k + 1],
                  Append(chs, Chamada(text, TAMANHOS[k])),
                  SubSeq(saidas, 1, k + 1), lookup, hoje)
    ELSE IF ContinuaReduzindo(saidas[k + 1])
    THEN TentarReduzido(text, saidas, k + 1,
                        Append(chs, Chamada(text, TAMANHOS[k])), lookup, hoje)
    ELSE Levantar(saidas[k + 1].classe, "propagado", Some(saidas[k + 1]),
                  Append(chs, Chamada(text, TAMANHOS[k])),
                  SubSeq(saidas, 1, k + 1))

\* The parse branch: the same request again at 3000, then at 2000; any
\* error of the last one is reported as an invalid JSON.
RetentarParse(text, saidas, chs, lookup, hoje) ==
    IF saidas[2].ok
    THEN Retornar(text, saidas[2], Append(chs, Chamada(text, 3000)),
                  SubSeq(saidas, 1, 2), lookup, hoje)
    ELSE IF saidas[3].ok
    THEN Retornar(text, saidas[3],
                  chs \o <<Chamada(text, 3000), Chamada(text, 2000)>>,
                  SubSeq(saidas, 1, 3), lookup, hoje)
    ELSE Levantar("Exception", "json_invalido", Some(saidas[3]),
                  chs \o <<Chamada(text, 3000), Chamada(text, 2000)>>,
                  SubSeq(saidas, 1, 3))

\* except Exception as e, after the first call: the parse test comes
\* first, then the token-limit test, then the rate-limit test.
TratarErro(text, saidas, chs, lookup, hoje) ==
    IF ErroParse(saidas[1])
    THEN RetentarParse(text, saidas, chs, lookup, hoje)
    ELSE IF ErroTokens(saidas[1])
    THEN TentarReduzido(text, saidas, 1, chs, lookup, hoje)
    ELSE IF ErroRate(saidas[1])
    THEN Levantar("Exception", "limite_diario", Some(saidas[1]), chs,
                  SubSeq(saidas, 1, 1))
    ELSE Levantar("Exception", "erro_extracao", Some(saidas[1]), chs,
                  SubSeq(saidas, 1, 1))

\* extract_from_text: saidas[k] is what the k-th chain.invoke gives.
\* chamadas and saidas of the result record the calls made and what they
\* gave.
extract_from_text(text, saidas, lookup, hoje) ==
    IF text.limpo = 0
    THEN Levantar("ValueError", "texto_vazio", None, <<>>, <<>>)
    ELSE IF saidas[1].ok
    THEN Retornar(text, saidas[1], <<Chamada(text, 3000)>>,
                  SubSeq(saidas, 1, 1), lookup, hoje)
    ELSE TratarErro(text, saidas, <<Chamada(text, 3000)>>, lookup, hoje)

\* ------------------------------------------------------------------------
\* Inputs
\* ------------------------------------------------------------------------
Hoje == Date(2024, 1, 31)
DataA == Date(2023, 12, 31)
DataB == Date(2024, 2, 29)

\* principals: negative, zero, two cents, 100.00 and 1000.00
Principais == {-100 * MU, 0, 2 * CentUnit, 100 * MU, 1000 * MU}
\* monthly rates: 0 %, 1 %, 2.5 %, 10 %
TaxasValidas == {0, RU, (25 * RU) \div 10, 10 * RU}
TaxaNegativa == -RU
NumParcelas == -1 .. MaxParcelas

Opt(S) == {None} \cup {Some(x) : x \in S}

\* Stated instalments worth trying for a contract: on, next to, R$ 1,00 and
\* R$ 1,01 away from the Price instalment, the first SAC instalment, far
\* from both, zero and negative.
ParcelasPerto(vp, vs) ==
    {vp, vp + 1, vp + TOLERANCIA_REAIS, vp + TOLERANCIA_REAIS + 1,
     vs, 3 * vp + 700, 0, -500}

TaxaNaoNegativa(taxa) == IF taxa < 0 THEN 0 ELSE taxa

ParcelasCandidatas(pv, taxa, n) ==
    The({ The({ ParcelasPerto(rp.valor_parcela, rs.valor_parcela_inicial) :
                rs \in {calcular_sac(Some(pv), TaxaNaoNegativa(taxa), Some(n),
                                     None, Hoje)} }) :
          rp \in {calcular_tabela_price(Some(pv), TaxaNaoNegativa(taxa),
                                        Some(n), None, Hoje)} })

ParcelasOpt(pvO, taxaO, nO) ==
    IF IsNone(pvO) \/ IsNone(nO) THEN {None, Some(10000)}
    ELSE Opt(ParcelasCandidatas(Val(pvO), OrZero(taxaO), Val(nO)))

EntradasTabela ==
    { [pv |-> pv, taxa |-> taxa, n |-> n, data |-> d, hoje |-> Hoje] :
        pv \in Principais, taxa \in TaxasValidas \cup {TaxaNegativa},
        n \in NumParcelas, d \in {None, Some(DataA)} }


\* The two reference contracts: R$ 12.000,00 in 12 instalments without
\* interest, R$ 50.000,00 in 60 instalments at 2.5 % a month.
EntradasReferencia ==
    { [pv |-> 12000 * MU, taxa |-> 0, n |-> 12, data |-> Some(DataA),
       hoje |-> Hoje],
      [pv |-> 50000 * MU, taxa |-> (25 * RU) \div 10, n |-> 60,
       data |-> Some(DataA), hoje |-> Hoje] }

\* A negative rate is only tried on degenerate input.
EntradasPrice ==
    { a \in EntradasTabela : a.taxa >= 0 \/ a.pv <= 0 \/ a.n <= 0 }
    \cup EntradasReferencia

EntradasDetectar ==
    UNION { { [pv |-> pv, taxa |-> taxa, n |-> n, contrato |-> c, hoje |-> Hoje] :
                c \in ParcelasCandidatas(pv, taxa, n) } :
            <<pv, taxa, n>> \in Principais \X TaxasValidas \X NumParcelas }

\* Contract terms as the extraction hands them over: any field may be absent.
Contratos ==
    UNION { { [pv |-> pvO, taxa |-> taxaO, n |-> nO, parcela |-> pa] :
                pa \in ParcelasOpt(pvO, taxaO, nO) } :
            <<pvO, taxaO, nO>> \in Opt(Principais)
                                   \X Opt(TaxasValidas \cup {TaxaNegativa})
                                   \X Opt(NumParcelas) }

Rec(c, dcontr, dprim, tipo, idxO, metO, lookup) ==
    [pv |-> c.pv, taxa |-> c.taxa, n |-> c.n, parcela |-> c.parcela,
     dcontr |-> dcontr, dprim |-> dprim, tipo_taxa |-> tipo, idx |-> idxO,
     met |-> metO, lookup |-> lookup, hoje |-> Hoje]

\* annual reference rates the lookup may answer: nothing, 0 %, 12 %
Lookups == {None, Some(0), Some(12 * RU)}
Indexadores == {None, Some("selic"), Some("SELIC"), Some("cdi"), Some("ipca")}
DatasStr == {NoDate, DateStr("empty", Date(0, 0, 0)), DateStr("iso", DataA),
             DateStr("br", DataB), DateStr("bad", Date(0, 0, 0))}

\* floating-rate contracts: a few terms against every index and answer
ContratosPos ==
    { c \in Contratos :
        /\ c.pv \in {None, Some(0), Some(1000 * MU)}
        /\ c.taxa \in {None, Some(0), Some(RU), Some(TaxaNegativa)}
        /\ c.n \in {None, Some(2)}
        /\ c.parcela = None \/ Val(c.parcela) > 0 }

ContratoBase ==
    [pv |-> Some(1000 * MU), taxa |-> Some(RU), n |-> Some(MaxParcelas),
     parcela |-> Some(34002)]

\* a contract stating a rate of 1e30 % a month and no instalment
ContratoTaxaEnorme ==
    [pv |-> Some(1000 * MU), taxa |-> Some(TAXA_ENORME), n |-> Some(2),
     parcela |-> None]

EntradasRecalcular ==
    { Rec(c, NoDate, NoDate, "prefixada", Some("selic"), None, None) :
        c \in Contratos }
    \cup
    { Rec(ContratoTaxaEnorme, NoDate, NoDate, t, Some("selic"), None, l) :
        t \in {"prefixada", "posfixada"}, l \in Lookups }
    \cup
    { Rec(c, NoDate, NoDate, "posfixada", i, None, l) :
        c \in ContratosPos, i \in Indexadores, l \in Lookups }
    \cup
    { Rec(ContratoBase, dc, dp, t, Some("cdi"), m, Some(12 * RU)) :
        dc \in DatasStr, dp \in DatasStr, t \in {"prefixada", "posfixada"},
        m \in {None, Some("price"), Some("sac")} }

EntradasValidar ==
    { [pv |-> c.pv, taxa |-> c.taxa, n |-> c.n, parcela |-> c.parcela,
       dcontr |-> dc, hoje |-> Hoje] :
        c \in Contratos, dc \in {NoDate} }
    \cup
    { [pv |-> ContratoBase.pv, taxa |-> ContratoBase.taxa,
       n |-> ContratoBase.n, parcela |-> ContratoBase.parcela,
       dcontr |-> dc, hoje |-> Hoje] : dc \in DatasStr }

\* The target date of a lookup and the dates of the points around it.
DataAlvo == Date(2024, 1, 15)
DatasPonto ==
    {Date(2023, 12, 29), Date(2024, 1, 12), Date(2024, 1, 15),
     Date(2024, 1, 16), Date(2024, 2, 1)}

\* the rate a well-formed point of date d carries: a different one per day
ValorNum(d) == [tipo |-> "num", v |-> (10 + d.d) * RU]

PontosBons == { Ponto(DateStr("br", d), ValorNum(d)) : d \in DatasPonto }

\* points with a null or non-numeric valor, with a data that is no date
\* and with no data
PontosRuins ==
    { Ponto(DateStr("br", Date(2024, 1, 12)), [tipo |-> "nulo"]),
      Ponto(DateStr("br", Date(2024, 1, 16)), [tipo |-> "invalido"]),
      Ponto(DateStr("bad", Date(0, 0, 0)), ValorNum(Date(0, 0, 1))),
      Ponto(DateStr("none", Date(0, 0, 0)), ValorNum(Date(0, 0, 2))) }

\* the provider answers in chronological order
Cronologica(dados) ==
    \A j, k \in 1..Len(dados) :
        (j < k /\ dados[j].data.fmt = "br" /\ dados[k].data.fmt = "br")
            => /\ DateLE(dados[j].data.dt, dados[k].data.dt)
               /\ dados[j].data.dt # dados[k].data.dt

Respostas ==
    { [tipo |-> t, dados |-> <<>>] : t \in {"rede", "http", "json", "ok"} }
    \cup
    { [tipo |-> "ok", dados |-> d] :
        d \in { x \in UNION { [1..m -> PontosBons \cup PontosRuins] :
                                m \in 1..MaxPontos } : Cronologica(x) } }

\* other target dates: December, February of a leap and of a common year,
\* a 30-day month, the first days of a year
OutrosAlvos ==
    {Date(2023, 12, 10), Date(2024, 2, 10), Date(2023, 2, 28),
     Date(2024, 4, 30), Date(2024, 1, 3)}

\* what the provider answers for them: failures, nothing, one or two points
RespostasCurtas == { r \in Respostas : Len(r.dados) <= 2 }

EntradasBuscar ==
    { [diaria |-> di, data |-> DataAlvo, resposta |-> r] :
        di \in BOOLEAN, r \in Respostas }
    \cup
    { [diaria |-> di, data |-> d, resposta |-> r] :
        di \in BOOLEAN, d \in OutrosAlvos, r \in RespostasCurtas }

EntradasSelic ==
    { [diaria |-> di, data |-> DataAlvo, resposta |-> r] :
        di \in BOOLEAN, r \in RespostasCurtas }

EntradasCdi == { [data |-> DataAlvo, resposta |-> r] : r \in RespostasCurtas }

EntradasIpca ==
    { [acumulado_12m |-> ac, data |-> DataAlvo, resposta |-> r] :
        ac \in BOOLEAN, r \in RespostasCurtas }

\* Extraction results: the fields _aplicar_recalculo_bacen reads or writes,
\* and the customer's name standing for the fields it does not touch.
ContratoInfo(c, dv, obs) ==
    [nome_cliente |-> "Maria", valor_divida |-> c.pv,
     quantidade_parcelas |-> c.n, valor_parcela |-> c.parcela,
     data_vencimento_primeira |-> dv, taxa_juros |-> c.taxa,
     observacoes |-> obs, recalculo_bacen |-> None]

ContratosExtraidos ==
    { c \in Contratos :
        /\ c.pv \in {None, Some(0), Some(-100 * MU), Some(1000 * MU)}
        /\ c.taxa \in {None, Some(0), Some(RU), Some(TaxaNegativa)}
        /\ c.n \in {None, Some(-1), Some(2)} }

Observacoes == {None, Some(<<>>), Some(<<"Contrato com garantia real">>)}

EntradasAplicar ==
    { [result |-> ContratoInfo(c, dv, obs), recalculador |-> r,
       lookup |-> Some(12 * RU), hoje |-> Hoje] :
        c \in ContratosExtraidos,
        dv \in {NoDate, DateStr("empty", Date(0, 0, 0)), DateStr("iso", DataA),
                DateStr("bad", Date(0, 0, 0))},
        obs \in Observacoes, r \in {"real", "levanta"} }

\* lengths around every size the extractor truncates to
Comprimentos ==
    {0, 1, 999, 1000, 1001, 1013, 1499, 1500, 1501, 1999, 2000, 2001, 2999,
     3000, 3001, 5000}

EntradasTruncar ==
    { [n |-> n, max_chars |-> m] :
        n \in Comprimentos, m \in {3000, 2000, 1500, 1000} }

Textos ==
    { Texto(40, 0, None), Texto(2600, 2500, Some("Bradesco")),
      Texto(1020, 1001, None), Texto(6000, 5000, Some("Bradesco")) }

\* the records the LLM extracts: with and without the data of a recalculation
Extraidos ==
    { ContratoInfo(ContratoBase, DateStr("iso", DataA), None)
          @@ [banco_credor |-> Some(" ")],
      ContratoInfo([ContratoBase EXCEPT !.taxa = None], NoDate,
                   Some(<<"Contrato com garantia real">>))
          @@ [banco_credor |-> Some("Banco Pan")] }

\* the errors of a call: parse, token limit, a message passing both tests,
\* rate limit (its message passes the token test when it names the TPM
\* limit), anything else
Falhas ==
    { Falha("OutputParserException", TRUE, FALSE, FALSE),
      Falha("APIStatusError", FALSE, TRUE, FALSE),
      Falha("OutputParserException", TRUE, TRUE, FALSE),
      Falha("RateLimitError", FALSE, FALSE, TRUE),
      Falha("APIConnectionError", FALSE, FALSE, FALSE) }

Saidas == { Extraido(r) : r \in Extraidos } \cup Falhas

\* the first call and one retry for each size of tamanhos: no run of the
\* handler asks for more answers
MaxChamadas == 1 + Len(TAMANHOS)

EntradasExtrair ==
    { [text |-> t, lookup |-> Some(12 * RU), hoje |-> Hoje] : t \in Textos }

\* ------------------------------------------------------------------------
\* The state machine: one call per run
\* ------------------------------------------------------------------------
Pendente == [exc |-> "pendente"]

Init ==
    /\ pc = "call"
    /\ ret = Pendente
    /\ recalculo = None
    /\ \/ op = "calcular_tabela_price" /\ args \in EntradasPrice
       \/ op = "calcular_sac" /\ args \in EntradasPrice
       \/ op = "detectar_metodologia_amortizacao" /\ args \in EntradasDetectar
       \/ op = "recalcular_contrato" /\ args \in EntradasRecalcular
       \/ op = "validar_contrato" /\ args \in EntradasValidar
       \/ op = "buscar_taxa_por_codigo" /\ args \in EntradasBuscar
       \/ op = "buscar_taxa_selic" /\ args \in EntradasSelic
       \/ op = "aplicar_recalculo_bacen" /\ args \in EntradasAplicar
       \/ op = "buscar_cdi" /\ args \in EntradasCdi
       \/ op = "truncar_texto_inteligente" /\ args \in EntradasTruncar
       \/ op = "extract_from_text" /\ args \in EntradasExtrair
       \/ op = "buscar_ipca" /\ args \in EntradasIpca

CalcularTabelaPrice ==
    /\ pc = "call" /\ op = "calcular_tabela_price"
    /\ ret' = calcular_tabela_price(Some(args.pv), args.taxa, Some(args.n),
                                    args.data, args.hoje)
    /\ pc' = "done"
    /\ UNCHANGED <<op, args, recalculo>>

CalcularSac ==
    /\ pc = "call" /\ op = "calcular_sac"
    /\ ret' = calcular_sac(Some(args.pv), args.taxa, Some(args.n),
                           args.data, args.hoje)
    /\ pc' = "done"
    /\ UNCHANGED <<op, args, recalculo>>

DetectarMetodologia ==
    /\ pc = "call" /\ op = "detectar_metodologia_amortizacao"
    /\ ret' = detectar_metodologia_amortizacao(Some(args.pv), args.taxa,
                  Some(args.n), args.contrato, args.hoje)
    /\ pc' = "done"
    /\ UNCHANGED <<op, args, recalculo>>

RecalcularContrato ==
    /\ pc = "call" /\ op = "recalcular_contrato"
    /\ ret' = recalcular_contrato(args.pv, args.taxa, args.n, args.parcela,
                  args.dcontr, args.dprim, args.tipo_taxa, args.idx,
                  args.met, args.lookup, args.hoje)
    /\ recalculo' = IF ret'.exc = "none" THEN Some(ret') ELSE None
    /\ pc' = "done"
    /\ UNCHANGED <<op, args>>

ValidarContrato ==
    /\ pc = "call" /\ op = "validar_contrato"
    /\ \E rec \in {RecalculoDaValidacao(args.pv, args.taxa, args.n,
                                         args.parcela, args.dcontr, args.hoje)} :
          recalculo' = IF rec.exc = "none" THEN Some(rec) ELSE None
    /\ ret' = validar_contrato(args.pv, args.taxa, args.n, args.parcela,
                               args.dcontr, args.hoje)
    /\ pc' = "done"
    /\ UNCHANGED <<op, args>>

BuscarTaxaPorCodigo ==
    /\ pc = "call" /\ op = "buscar_taxa_por_codigo"
    /\ ret' = buscar_taxa_por_codigo(args.diaria, args.data, args.resposta)
                 @@ [pedido |-> PedidoBacen(args.diaria, args.data)]
    /\ pc' = "done"
    /\ UNCHANGED <<op, args, recalculo>>

BuscarTaxaSelic ==
    /\ pc = "call" /\ op = "buscar_taxa_selic"
    /\ ret' = buscar_taxa_selic(args.data, args.diaria, args.resposta)
    /\ pc' = "done"
    /\ UNCHANGED <<op, args, recalculo>>

BuscarCdi ==
    /\ pc = "call" /\ op = "buscar_cdi"
    /\ ret' = buscar_cdi(args.data, args.resposta)
    /\ pc' = "done"
    /\ UNCHANGED <<op, args, recalculo>>

BuscarIpca ==
    /\ pc = "call" /\ op = "buscar_ipca"
    /\ ret' = buscar_ipca(args.data, args.acumulado_12m, args.resposta)
    /\ pc' = "done"
    /\ UNCHANGED <<op, args, recalculo>>

AplicarRecalculoBacen ==
    /\ pc = "call" /\ op = "aplicar_recalculo_bacen"
    /\ \E rec \in {IF DadosSuficientes(args.result)
                    THEN ChamarRecalculador(args.result, args.recalculador,
                                            args.lookup, args.hoje)
                    ELSE Raised("nao chamado")} :
          /\ ret' = aplicar_recalculo_bacen(args.result, rec)
          /\ recalculo' = ret'.relatorio
    /\ pc' = "done"
    /\ UNCHANGED <<op, args>>

TruncarTextoInteligente ==
    /\ pc = "call" /\ op = "truncar_texto_inteligente"
    /\ ret' = [exc |-> "none",
               texto |-> truncar_texto_inteligente(args.n, args.max_chars)]
    /\ pc' = "done"
    /\ UNCHANGED <<op, args, recalculo>>

\* The LLM answers each call as it pleases: saidas is drawn freely.
ExtractFromText ==
    /\ pc = "call" /\ op = "extract_from_text"
    /\ \E saidas \in [1..MaxChamadas -> Saidas] :
          \E r \in {extract_from_text(args.text, saidas, args.lookup,
                                      args.hoje)} :
              /\ ret' = r
              /\ recalculo' = r.relatorio
    /\ pc' = "done"
    /\ UNCHANGED <<op, args>>

Next ==
    \/ CalcularTabelaPrice
    \/ CalcularSac
    \/ DetectarMetodologia
    \/ RecalcularContrato
    \/ ValidarContrato
    \/ BuscarTaxaPorCodigo
    \/ BuscarTaxaSelic
    \/ BuscarCdi
    \/ BuscarIpca
    \/ AplicarRecalculoBacen
    \/ TruncarTextoInteligente
    \/ ExtractFromText

Spec == Init /\ [][Next]_vars

\* ------------------------------------------------------------------------
\* Two invocations of recalcular_contrato, interleaved
\* ------------------------------------------------------------------------
\* Here op is fixed, args is the pair of the calls' arguments (inst is the
\* RecalculoBacen the call is made on), pc the pair of their positions,
\* ret the pair of their frames (the locals of each call) and recalculo
\* the pair of instances as __init__ left them.
Chamadas == 1..2

\* __init__: the two collaborators, nothing else
Instancia == [bacen |-> "BacenIntegration", calculator |-> "FinancialCalculator"]

\* the locals of a call before its first statement
QuadroVazio ==
    [resultado |-> ResultadoInicial(None), data_contrato |-> Date(0, 0, 0),
     data_primeira |-> Date(0, 0, 0), taxa_efetiva |-> 0, taxa_bacen |-> None,
     prox |-> "inicio"]

Quadro_Unico(i) == 1

\* The frame the call i works on: its own.
Quadro(i) == i

\* Lines 63-79: the report is created, the dates are parsed.
PassoInicio(a, q) ==
    The({ [q EXCEPT !.resultado = ResultadoInicial(a.taxa),
                    !.data_contrato = dc,
                    !.data_primeira = DataPrimeiraParcela(a.dprim, dc),
                    !.prox = "taxa"] :
          dc \in {DataContrato(a.dcontr, a.dprim, a.hoje)} })

\* Lines 81-121: the rate is resolved, through self.bacen for a floating
\* rate, and checked.
PassoTaxa(a, q) ==
    The({ IF t.exc # "none"
          THEN [q EXCEPT !.resultado = RecalculoCaptura(t.res, t.exc),
                         !.prox = "fim"]
          ELSE IF TaxaIndisponivel(t.taxa_efetiva)
          THEN [q EXCEPT !.resultado = [t.res EXCEPT !.erro = Some(ERRO_TAXA)],
                         !.prox = "fim"]
          ELSE [q EXCEPT !.resultado = t.res,
                         !.taxa_efetiva = t.taxa_efetiva,
                         !.taxa_bacen = t.taxa_bacen,
                         !.prox = "detecta"] :
          t \in {ResolverTaxa(q.resultado, a.taxa, a.tipo_taxa, a.idx,
                              q.data_contrato, a.lookup)} })

\* Lines 124-131: the methodology is detected when none was passed in and
\* an instalment is stated.
PassoDetecta(a, q) ==
    IF ~Detecta(a.met, a.parcela) THEN [q EXCEPT !.prox = "price"]
    ELSE The({ IF ~Ok(det)
               THEN [q EXCEPT !.resultado = RecalculoCaptura(
                                  [@ EXCEPT !.passos = @ \o <<"detectar">>],
                                  det.exc),
                              !.prox = "fim"]
               ELSE [q EXCEPT !.resultado =
                                  [@ EXCEPT !.passos = @ \o <<"detectar">>,
                                            !.metodologia_detectada = det.val],
                              !.prox = "price"] :
               det \in {detectar_metodologia_amortizacao(a.pv, q.taxa_efetiva,
                            a.n, Val(a.parcela), a.hoje)} })

\* Lines 134-140: the Price schedule.
PassoPrice(a, q) ==
    The({ IF ~Ok(rp)
          THEN [q EXCEPT !.resultado = RecalculoCaptura(
                             [@ EXCEPT !.passos = @ \o <<"price">>], rp.exc),
                         !.prox = "fim"]
          ELSE [q EXCEPT !.resultado = [@ EXCEPT !.passos = @ \o <<"price">>,
                                                 !.recalculo_price = Some(rp)],
                         !.prox = "sac"] :
          rp \in {calcular_tabela_price(a.pv, q.taxa_efetiva, a.n,
                                        Some(q.data_primeira), a.hoje)} })

\* Lines 143-149: the SAC schedule.
PassoSac(a, q) ==
    The({ IF ~Ok(rs)
          THEN [q EXCEPT !.resultado = RecalculoCaptura(
                             [@ EXCEPT !.passos = @ \o <<"sac">>], rs.exc),
                         !.prox = "fim"]
          ELSE [q EXCEPT !.resultado = [@ EXCEPT !.passos = @ \o <<"sac">>,
                                                 !.recalculo_sac = Some(rs)],
                         !.prox = "compara"] :
          rs \in {calcular_sac(a.pv, q.taxa_efetiva, a.n,
                               Some(q.data_primeira), a.hoje)} })

\* Lines 151-175: the comparison, the rate difference, sucesso.
PassoCompara(a, q) ==
    The({ IF DiferencaTaxaEstoura(q.taxa_bacen, a.taxa)
          THEN [q EXCEPT !.resultado = RecalculoCaptura(
                             [@ EXCEPT !.comparacao = Some(cmp)],
                             "OverflowError"),
                         !.prox = "fim"]
          ELSE [q EXCEPT !.resultado =
                             [@ EXCEPT !.comparacao = Some(cmp),
                                       !.diferenca_taxa =
                                           DiferencaTaxa(q.taxa_bacen, a.taxa),
                                       !.sucesso = TRUE],
                         !.prox = "fim"] :
          cmp \in {Comparacao(a.parcela, Val(q.resultado.recalculo_price),
                              Val(q.resultado.recalculo_sac))} })

\* The calls that are interleaved: fixed and floating rate, with and
\* without a stated instalment, failing at the rate check, in the Price
\* schedule and in the rate difference.
ContratoSemParcela ==
    [pv |-> Some(1000 * MU), taxa |-> Some(RU), n |-> Some(2),
     parcela |-> None]

EntradasConcorrentes ==
    { Rec(ContratoBase, NoDate, DateStr("iso", DataA), "prefixada",
          Some("selic"), None, None),
      Rec(ContratoBase, DateStr("br", DataB), NoDate, "posfixada",
          Some("cdi"), Some("sac"), Some(12 * RU)),
      Rec(ContratoSemParcela, NoDate, NoDate, "posfixada", Some("selic"),
          None, None),
      Rec([ContratoSemParcela EXCEPT !.taxa = Some(TaxaNegativa)], NoDate,
          NoDate, "prefixada", Some("selic"), None, None),
      Rec([ContratoSemParcela EXCEPT !.pv = None], NoDate, NoDate,
          "prefixada", Some("selic"), None, None),
      Rec(ContratoTaxaEnorme, NoDate, NoDate, "posfixada", Some("selic"),
          None, Some(12 * RU)) }

Em(a, k) == [r \in {"inst"} |-> k] @@ a

InitConc ==
    /\ op = "recalcular_concorrente"
    /\ args \in { <<Em(a1, 1), Em(a2, k)>> :
                    a1 \in EntradasConcorrentes, a2 \in EntradasConcorrentes,
                    k \in Chamadas }
    /\ pc = [i \in Chamadas |-> "inicio"]
    /\ ret = [i \in Chamadas |-> QuadroVazio]
    /\ recalculo = [k \in Chamadas |-> Instancia]

\* The call i takes a step: its frame and its position change.
Avanca(i, q) ==
    /\ ret' = [ret EXCEPT ![Quadro(i)] = q]
    /\ pc' = [pc EXCEPT ![i] = q.prox]
    /\ UNCHANGED <<op, args, recalculo>>

ConcInicio(i) ==
    /\ pc[i] = "inicio"
    /\ Avanca(i, PassoInicio(args[i], ret[Quadro(i)]))

ConcTaxa(i) ==
    /\ pc[i] = "taxa"
    /\ Avanca(i, PassoTaxa(args[i], ret[Quadro(i)]))

ConcDetecta(i) ==
    /\ pc[i] = "detecta"
    /\ Avanca(i, PassoDetecta(args[i], ret[Quadro(i)]))

ConcPrice(i) ==
    /\ pc[i] = "price"
    /\ Avanca(i, PassoPrice(args[i], ret[Quadro(i)]))

ConcSac(i) ==
    /\ pc[i] = "sac"
    /\ Avanca(i, PassoSac(args[i], ret[Quadro(i)]))

ConcCompara(i) ==
    /\ pc[i] = "compara"
    /\ Avanca(i, PassoCompara(args[i], ret[Quadro(i)]))


NextConc ==
    \E i \in Chamadas :
        \/ ConcInicio(i)
        \/ ConcTaxa(i)
        \/ ConcDetecta(i)
        \/ ConcPrice(i)
        \/ ConcSac(i)
        \/ ConcCompara(i)

SpecConc == InitConc /\ [][NextConc]_vars

\* ------------------------------------------------------------------------
\* Properties
\* ------------------------------------------------------------------------
Done(o) == pc = "done" /\ op = o

\* a schedule function has returned
TabelaFeita == Done("calcular_tabela_price") \/ Done("calcular_sac")

Ultima(r) == r.parcelas[Len(r.parcelas)]

\* the first-instalment date recalcular_contrato resolves from its arguments
DataPrimeira(a) ==
    Val(OrElse(parse_date(a.dprim),
        OrElse(parse_date(a.dcontr),
        OrElse(parse_date(a.dprim), Some(a.hoje)))))

\* C1: for principal > 0, monthly rate >= 0 and count >= 1, both schedule
\* functions return count entries and the last entry's saldo_devedor is
\* within 0.01 (one cent) of zero.
C1_SaldoFinalZero ==
    (TabelaFeita /\ args.pv > 0 /\ args.taxa >= 0 /\ args.n >= 1)
        => /\ Ok(ret)
           /\ Len(ret.parcelas) = args.n
           /\ Abs(Ultima(ret).saldo_devedor) <= 1

\* C1 witness: a SAC schedule of three instalments of 100.00 at a positive
\* rate, where 3 * (100 / 3) leaves a residue, ends on a zero balance.
C1_Witness ==
    /\ Done("calcular_sac") /\ args.pv = 100 * MU /\ args.n = 3
    /\ args.taxa > 0
    /\ ret.parcelas[2].saldo_devedor > 0
    /\ Ultima(ret).saldo_devedor = 0

\* C2: in every returned schedule total_pago is the sum of the entries'
\* valor_parcela and total_juros is the sum of the entries' juros.
C2_TotaisSomamParcelas ==
    (TabelaFeita /\ Ok(ret))
        => /\ ret.total_pago = SumField(ret.parcelas, "valor_parcela")
           /\ ret.total_juros = SumField(ret.parcelas, "juros")

\* C3: in every entry of every schedule valor_parcela is juros plus
\* amortizacao to within 0.01 (one cent), the adjusted last Price entry
\* included.
C3_ParcelaDecompoe ==
    (TabelaFeita /\ Ok(ret))
        => \A k \in 1..Len(ret.parcelas) :
              Abs(ret.parcelas[k].valor_parcela
                  - (ret.parcelas[k].juros + ret.parcelas[k].amortizacao)) <= 1

\* C3 witness: a Price schedule whose adjusted last instalment, with
\* interest, is one cent away from its rounded interest plus its rounded
\* amortization.
C3_Witness ==
    /\ Done("calcular_tabela_price") /\ Ok(ret) /\ Len(ret.parcelas) >= 2
    /\ Ultima(ret).juros > 0
    /\ Ultima(ret).amortizacao > 0
    /\ Abs(Ultima(ret).valor_parcela
           - (Ultima(ret).juros + Ultima(ret).amortizacao)) = 1

\* C4: recalcular_contrato answers sucesso = False with an error whenever
\* the principal is non-positive, or the count is non-positive, or the rate
\* is missing on a fixed-rate contract.
C4_EntradaInvalidaRejeitada ==
    (/\ Done("recalcular_contrato")
     /\ \/ (~IsNone(args.pv) /\ Val(args.pv) <= 0)
        \/ (~IsNone(args.n) /\ Val(args.n) <= 0)
        \/ (args.tipo_taxa = "prefixada" /\ IsNone(args.taxa)))
        => (~ret.sucesso /\ ~IsNone(ret.erro))

\* C5: no exception escapes recalcular_contrato or validar_contrato: each
\* call returns its result object, a report with sucesso and erro or a
\* validation with valido, irregularidades and aviso.
C5_NenhumaExcecaoEscapa ==
    /\ Done("recalcular_contrato")
          => /\ ret.exc = "none"
             /\ ret.sucesso \in BOOLEAN
             /\ (~ret.sucesso => ~IsNone(ret.erro))
    /\ Done("validar_contrato")
          => /\ ret.exc = "none"
             /\ ret.valido \in BOOLEAN

\* C5 witness: a recalculation whose principal is None: the TypeError of the
\* schedule function is caught and reported.
C5_Witness ==
    /\ Done("recalcular_contrato") /\ IsNone(args.pv)
    /\ ret.exc = "none" /\ ~ret.sucesso /\ ret.erro = Some("TypeError")

\* the lookup was made (selic or cdi) and came back without data
SemDadosBacen ==
    /\ Done("recalcular_contrato") /\ args.tipo_taxa = "posfixada"
    /\ ~IsNone(args.idx) /\ Lower(Val(args.idx)) \in {"selic", "cdi"}
    /\ IsNone(args.lookup)

\* the report is a success computed at the contract-stated rate, with the
\* reference-rate warning attached
EstimadoPelaTaxaDoContrato ==
    /\ ret.sucesso
    /\ ~IsNone(args.taxa)
    /\ ret.recalculo_price =
          Some(calcular_tabela_price(args.pv, Val(args.taxa), args.n,
                                     Some(DataPrimeira(args)), args.hoje))
    /\ ret.recalculo_sac =
          Some(calcular_sac(args.pv, Val(args.taxa), args.n,
                            Some(DataPrimeira(args)), args.hoje))
    /\ IsNone(ret.taxa_bacen)
    /\ ~IsNone(ret.aviso_taxa_posfixada)

\* C6 (as claimed): for a floating-rate contract, when the lookup returns
\* no data the report is a success at the contract-stated rate with a
\* warning.
C6_SemDadosAindaSucesso == SemDadosBacen => EstimadoPelaTaxaDoContrato

\* C6 (amended): for a floating-rate contract that states a positive rate
\* and has a principal and a count, when the lookup returns no data the
\* report is a success at the contract-stated rate with a warning; when
\* the contract states no positive rate the report is a failure with the
\* rate-unavailable error, the warning still attached.
C6_SemDadosComTaxaContrato ==
    SemDadosBacen =>
        /\ (Truthy(args.taxa) /\ Val(args.taxa) > 0
            /\ ~IsNone(args.pv) /\ ~IsNone(args.n))
              => EstimadoPelaTaxaDoContrato
        /\ (~Truthy(args.taxa) \/ Val(args.taxa) <= 0)
              => /\ ~ret.sucesso /\ ret.erro = Some(ERRO_TAXA)
                 /\ ~IsNone(ret.aviso_taxa_posfixada)

\* C6 witness: a floating-rate contract of 1000.00 at 1 % whose lookup found
\* nothing is recalculated at 1 %.
C6_Witness ==
    /\ SemDadosBacen /\ args.pv = Some(1000 * MU) /\ args.taxa = Some(RU)
    /\ args.n = Some(2)
    /\ EstimadoPelaTaxaDoContrato
    /\ Val(ret.recalculo_price).valor_parcela > 0

\* the instalments detection compares the stated one with
PriceDe(a) ==
    calcular_tabela_price(Some(a.pv), a.taxa, Some(a.n), None, a.hoje).valor_parcela
SacDe(a) ==
    calcular_sac(Some(a.pv), a.taxa, Some(a.n), None, a.hoje).valor_parcela_inicial

DeteccaoValida ==
    /\ Done("detectar_metodologia_amortizacao")
    /\ args.pv > 0 /\ args.taxa >= 0 /\ args.n >= 1

\* C7 (as claimed): for principal > 0, rate >= 0 and count >= 1, detection
\* returns "price" whenever the stated instalment is within 0.01 of the
\* computed Price instalment.
C7_IgualPriceDetectaPrice ==
    (DeteccaoValida /\ Abs(args.contrato - PriceDe(args)) <= 1)
        => (Ok(ret) /\ ret.val = Some("price"))

\* C7 (amended): for principal > 0, rate >= 0 and count >= 1, detection
\* returns "price" whenever the stated instalment is above 1.00, within
\* 0.01 of the computed Price instalment and at least 0.02 away from the
\* computed first SAC instalment; when the stated instalment equals both
\* computed instalments (count 1, rate 0) it returns None.
C7_PertoDePriceDetectaPrice ==
    /\ (DeteccaoValida /\ args.contrato > 100
        /\ Abs(args.contrato - PriceDe(args)) <= 1
        /\ Abs(args.contrato - SacDe(args)) >= 2)
          => (Ok(ret) /\ ret.val = Some("price"))
    /\ (DeteccaoValida /\ args.contrato > 0
        /\ args.contrato = PriceDe(args) /\ args.contrato = SacDe(args))
          => (Ok(ret) /\ ret.val = None)

\* C7 witness: a stated instalment one cent above the Price instalment of a
\* two-instalment contract is detected as Price.
C7_Witness ==
    /\ DeteccaoValida /\ args.n = 2 /\ args.taxa > 0
    /\ args.contrato = PriceDe(args) + 1
    /\ Abs(args.contrato - SacDe(args)) >= 2
    /\ ret.val = Some("price")

\* C8: detection never guesses: whenever the stated instalment differs by
\* more than 1 % of itself from both the Price instalment and the first
\* SAC instalment, it returns None.
C8_LongeDeAmbosRetornaNone ==
    (/\ Done("detectar_metodologia_amortizacao") /\ Ok(ret)
     /\ 100 * Abs(PriceDe(args) - args.contrato)
            > TOLERANCIA_CENT * Abs(args.contrato)
     /\ 100 * Abs(SacDe(args) - args.contrato)
            > TOLERANCIA_CENT * Abs(args.contrato))
        => ret.val = None

C10_EntradaDegeneradaVazia ==
    (TabelaFeita /\ (args.pv <= 0 \/ args.n <= 0))
        => /\ Ok(ret)
           /\ ret.parcelas = <<>>
           /\ ret.total_pago = 0 /\ ret.total_juros = 0
           /\ Done("calcular_tabela_price") => ret.valor_parcela = 0
           /\ Done("calcular_sac") => (/\ ret.valor_parcela_inicial = 0
                                       /\ ret.valor_parcela_final = 0)

\* C10 witness: calcular_tabela_price of a zero principal over three
\* instalments at a negative rate returned the empty schedule.
C10_Witness ==
    /\ Done("calcular_tabela_price") /\ args.pv = 0 /\ args.n = 3
    /\ args.taxa < 0
    /\ ret.parcelas = <<>> /\ ret.total_pago = 0

\* the amortization engine was called on degenerate numeric input: a
\* non-positive principal or count, or a non-positive stated instalment
EntradaDegenerada ==
    /\ pc = "done"
    /\ op \in {"calcular_tabela_price", "calcular_sac",
               "detectar_metodologia_amortizacao"}
    /\ \/ args.pv <= 0
       \/ args.n <= 0
       \/ op = "detectar_metodologia_amortizacao" /\ args.contrato <= 0

\* C11: calcular_tabela_price, calcular_sac and
\* detectar_metodologia_amortizacao never raise on degenerate numeric input
\* (non-positive principal, non-positive count, zero or negative stated
\* instalment): each returns a value.
C11_MotorNuncaLevanta == EntradaDegenerada => ret.exc = "none"

\* recalcular_contrato has returned for a fixed-rate contract whose stated
\* rate is absent, zero or negative
PrefixadaSemTaxa ==
    /\ Done("recalcular_contrato") /\ args.tipo_taxa = "prefixada"
    /\ (IsNone(args.taxa) \/ Val(args.taxa) <= 0)

\* C12: for a fixed-rate contract whose stated rate is absent or <= 0,
\* recalcular_contrato returns success=false with the rate-unavailable
\* error, and no rate lookup, no detection and no schedule was made.
C12_PrefixadaSemTaxaTermina ==
    PrefixadaSemTaxa =>
        /\ ret.exc = "none" /\ ~ret.sucesso /\ ret.erro = Some(ERRO_TAXA)
        /\ ret.passos = <<>>
        /\ IsNone(ret.metodologia_detectada)
        /\ IsNone(ret.recalculo_price) /\ IsNone(ret.recalculo_sac)
        /\ IsNone(ret.comparacao) /\ IsNone(ret.taxa_bacen)

\* C12 witness: a fixed-rate contract of 1000.00 stating -1 % a month came
\* back with the rate-unavailable error and no collaborator call.
C12_Witness ==
    /\ PrefixadaSemTaxa /\ args.taxa = Some(TaxaNegativa)
    /\ args.pv = Some(1000 * MU) /\ Truthy(args.parcela)
    /\ ret.erro = Some(ERRO_TAXA) /\ ret.passos = <<>>

\* recalcular_contrato has returned for a floating-rate contract on SELIC
\* or CDI whose lookup returned a reference rate
TaxaReferenciaEncontrada ==
    /\ Done("recalcular_contrato") /\ args.tipo_taxa = "posfixada"
    /\ ~IsNone(args.idx) /\ Lower(Val(args.idx)) \in {"selic", "cdi"}
    /\ ~IsNone(args.lookup)

\* monthly_from_annual(reference rate) plus the contract-stated rate as a
\* spread, or the converted reference alone when no contract rate is stated
TaxaComSpread(a) ==
    IF Truthy(a.taxa)
    THEN converter_taxa_anual_para_mensal(Val(a.lookup)) + Val(a.taxa)
    ELSE converter_taxa_anual_para_mensal(Val(a.lookup))

\* both schedules of the report r were computed at the monthly rate taxa
\* from the principal, count and first due date of the call a
TabelasNaTaxa(r, a, taxa) ==
    /\ r.recalculo_price =
          Some(calcular_tabela_price(a.pv, taxa, a.n,
                                     Some(DataPrimeira(a)), a.hoje))
    /\ r.recalculo_sac =
          Some(calcular_sac(a.pv, taxa, a.n, Some(DataPrimeira(a)), a.hoje))

\* C13: for a floating-rate contract whose reference rate is found, the
\* report records the reference rate, the effective monthly rate is the
\* converted reference rate plus the contract rate as a spread, a
\* provisional-rate warning is attached, and a successful report carries
\* both schedules computed at that effective rate.
C13_TaxaEncontradaComSpread ==
    TaxaReferenciaEncontrada =>
        /\ ret.taxa_bacen = args.lookup
        /\ ret.taxa_efetiva_mensal = Some(TaxaComSpread(args))
        /\ ~IsNone(ret.aviso_taxa_posfixada)
        /\ Val(ret.aviso_taxa_posfixada).msg = "taxa provisoria do indexador"
        /\ ret.sucesso => TabelasNaTaxa(ret, args, TaxaComSpread(args))

\* the effective monthly rate recalcular_contrato resolves for the call a:
\* the converted reference rate plus spread when the lookup gave one, the
\* contract-stated rate otherwise
TaxaEfetivaDe(a) ==
    IF /\ a.tipo_taxa = "posfixada" /\ ~IsNone(a.idx)
       /\ Lower(Val(a.idx)) \in {"selic", "cdi"} /\ Truthy(a.lookup)
    THEN TaxaComSpread(a)
    ELSE OrZero(a.taxa)

RecalculoComSucesso ==
    Done("recalcular_contrato") /\ ret.exc = "none" /\ ret.sucesso

\* C14: every report with success=true holds both the Price and the SAC
\* schedule, each computed from the same principal, effective rate, count
\* and first due date, whatever the detection returned and whether or not
\* the caller passed a methodology in.
C14_SucessoTemAmbasTabelas ==
    RecalculoComSucesso =>
        /\ ~IsNone(ret.recalculo_price) /\ ~IsNone(ret.recalculo_sac)
        /\ TabelasNaTaxa(ret, args, TaxaEfetivaDe(args))

\* C14 witness: a successful report for a call that passed "sac" in as the
\* methodology, with both schedules of three instalments.
C14_Witness ==
    /\ RecalculoComSucesso /\ args.met = Some("sac")
    /\ IsNone(ret.metodologia_detectada)
    /\ Len(Val(ret.recalculo_price).parcelas) = MaxParcelas
    /\ Len(Val(ret.recalculo_sac).parcelas) = MaxParcelas

\* a successful report whose detection ran and found no methodology still
\* has both schedules
C14_SemMetodologia ==
    /\ RecalculoComSucesso /\ IsNone(args.met) /\ Truthy(args.parcela)
    /\ IsNone(ret.metodologia_detectada)
    /\ Val(ret.recalculo_price).parcelas # <<>>
    /\ Val(ret.recalculo_sac).parcelas # <<>>

\* C15: in every successful report, when the contract states an
\* instalment value diferenca_price is |Price instalment - stated| and
\* diferenca_sac is |first SAC instalment - stated|; when it states none
\* both are null.
C15_DiferencasDaParcela ==
    RecalculoComSucesso =>
        IF IsNone(args.parcela)
        THEN /\ IsNone(Val(ret.comparacao).diferenca_price)
             /\ IsNone(Val(ret.comparacao).diferenca_sac)
        ELSE /\ Val(ret.comparacao).diferenca_price =
                  Some(Abs(Val(ret.recalculo_price).valor_parcela
                           - Val(args.parcela)))
             /\ Val(ret.comparacao).diferenca_sac =
                  Some(Abs(Val(ret.recalculo_sac).valor_parcela_inicial
                           - Val(args.parcela)))

\* the lookup of the call a was made and answered with a reference rate
TaxaReferenciaObtida(a) ==
    /\ a.tipo_taxa = "posfixada"
    /\ ~IsNone(a.idx) /\ Lower(Val(a.idx)) \in {"selic", "cdi"}
    /\ ~IsNone(a.lookup)

\* C16: in a successful report diferenca_taxa is populated exactly when a
\* reference rate was obtained and the contract states a rate, and is then
\* |annual_from_monthly(contract rate) - reference rate|; otherwise, and
\* for every fixed-rate contract, it is null.
C16_DiferencaTaxaSse ==
    RecalculoComSucesso =>
        IF TaxaReferenciaObtida(args) /\ ~IsNone(args.taxa)
        THEN ret.diferenca_taxa =
                Some(Abs(converter_taxa_mensal_para_anual(Val(args.taxa))
                         - Val(args.lookup)))
        ELSE IsNone(ret.diferenca_taxa)

\* a date string that parse_date accepts
Parseavel(s) == s.fmt \in {"iso", "br"}

\* the contracting date by strict priority: the explicit contracting date,
\* else the first-instalment date, else the current date
DataPrioritaria(a) ==
    IF Parseavel(a.dcontr) THEN a.dcontr.dt
    ELSE IF Parseavel(a.dprim) THEN a.dprim.dt
    ELSE a.hoje

\* C17: recalcular_contrato resolves the contracting date by strict
\* priority (contracting date, else first-instalment date, else today):
\* the date named in the floating-rate warning is that date, and so is the
\* first due date of the schedules when no first-instalment date parses.
C17_DataContratoPorPrioridade ==
    Done("recalcular_contrato") /\ ret.exc = "none" =>
        /\ ~IsNone(ret.aviso_taxa_posfixada)
              => Val(ret.aviso_taxa_posfixada).data = DataPrioritaria(args)
        /\ (ret.sucesso /\ ~Parseavel(args.dprim)
              /\ Val(ret.recalculo_price).parcelas # <<>>)
              => Val(ret.recalculo_price).parcelas[1].data_vencimento
                    = DataPrioritaria(args)

\* C17 witness: both dates parse and differ, and the warning names the
\* contracting date.
C17_Witness ==
    /\ Done("recalcular_contrato")
    /\ Parseavel(args.dcontr) /\ Parseavel(args.dprim)
    /\ args.dcontr.dt # args.dprim.dt
    /\ ~IsNone(ret.aviso_taxa_posfixada)
    /\ Val(ret.aviso_taxa_posfixada).data = args.dcontr.dt

\* the contracting date does not parse, the first-instalment date does,
\* and the warning names the first-instalment date
C17_SegundaPrioridade ==
    /\ Done("recalcular_contrato")
    /\ ~Parseavel(args.dcontr) /\ Parseavel(args.dprim)
    /\ ~IsNone(ret.aviso_taxa_posfixada)
    /\ Val(ret.aviso_taxa_posfixada).data = args.dprim.dt

\* validar_contrato has returned and the report it worked on is a failure
ValidacaoSemRecalculo ==
    /\ Done("validar_contrato") /\ ~IsNone(recalculo)
    /\ ~Val(recalculo).sucesso

\* C18: when the recalculation fails, validar_contrato returns exactly one
\* advisory (the could-not-recalculate note carrying the report's error),
\* no irregularity and no methodology, and the contract stays valid.
C18_FalhaUmAvisoSo ==
    ValidacaoSemRecalculo =>
        /\ ret.exc = "none"
        /\ Len(ret.aviso) = 1
        /\ ret.aviso[1].msg = "nao foi possivel recalcular"
        /\ ret.aviso[1].erro = Val(recalculo).erro
        /\ ret.irregularidades = <<>>
        /\ IsNone(ret.metodologia)
        /\ ret.valido

\* C18 witness: a contract with no rate and a stated instalment came back
\* with the single could-not-recalculate advisory.
C18_Witness ==
    /\ ValidacaoSemRecalculo
    /\ IsNone(args.taxa) /\ Truthy(args.parcela) /\ args.pv = Some(1000 * MU)
    /\ Len(ret.aviso) = 1 /\ ret.aviso[1].erro = Some(ERRO_TAXA)

\* validar_contrato has returned and the report it worked on is a success
ValidacaoComRecalculo ==
    /\ Done("validar_contrato") /\ ret.exc = "none"
    /\ ~IsNone(recalculo) /\ Val(recalculo).sucesso

\* the SAC advisory of validar_contrato is among the advisories of v
TemAvisoSac(v) ==
    \E k \in 1..Len(v.aviso) : v.aviso[k].msg = "se for SAC, divergencia"

\* C19: invalidity comes from the Price check alone: when the Price
\* difference is null or at most R$ 1,00 the contract stays valid with no
\* irregularity whatever the SAC difference is, and a SAC difference above
\* R$ 1,00 appends the SAC advisory.
C19_SoPriceInvalida ==
    ValidacaoComRecalculo =>
        /\ ~AcimaTolerancia(Val(Val(recalculo).comparacao).diferenca_price)
              => ret.valido /\ ret.irregularidades = <<>>
        /\ (Truthy(args.parcela)
              /\ AcimaTolerancia(Val(Val(recalculo).comparacao).diferenca_sac))
              => TemAvisoSac(ret)

\* C19 witness: the stated instalment is within R$ 1,00 of the Price
\* instalment and more than R$ 1,00 from the first SAC instalment; the
\* contract is valid and carries the SAC advisory.
C19_Witness ==
    /\ ValidacaoComRecalculo /\ Truthy(args.parcela)
    /\ ~AcimaTolerancia(Val(Val(recalculo).comparacao).diferenca_price)
    /\ Val(Val(Val(recalculo).comparacao).diferenca_sac) > TOLERANCIA_REAIS
    /\ ret.valido /\ TemAvisoSac(ret)

\* _buscar_taxa_por_codigo has returned on a daily series whose response
\* is a non-empty array of points that all carry a date
BuscaDiariaFeita ==
    /\ Done("buscar_taxa_por_codigo") /\ args.diaria
    /\ args.resposta.tipo = "ok" /\ args.resposta.dados # <<>>
    /\ \A k \in 1..Len(args.resposta.dados) :
          args.resposta.dados[k].data.fmt = "br"

\* the points of the response dated exactly / on or before the target date
PontosExatos(a) ==
    {k \in 1..Len(a.resposta.dados) : a.resposta.dados[k].data.dt = a.data}
PontosAte(a) ==
    {k \in 1..Len(a.resposta.dados) :
        DateLE(a.resposta.dados[k].data.dt, a.data)}

\* the most recent of the points ks of the response
MaisRecente(a, ks) ==
    CHOOSE k \in ks : \A j \in ks :
        DateLE(a.resposta.dados[j].data.dt, a.resposta.dados[k].data.dt)

\* the point the selection order of the daily series asks for
PontoEsperado(a) ==
    IF PontosExatos(a) # {} THEN MaisRecente(a, PontosExatos(a))
    ELSE IF PontosAte(a) # {} THEN MaisRecente(a, PontosAte(a))
    ELSE Len(a.resposta.dados)

\* the value float() gives for the point k of the response, None when the
\* point's valor is null or no number
ValorEsperado(a, k) ==
    IF a.resposta.dados[k].valor.tipo = "num"
    THEN Some(a.resposta.dados[k].valor.v)
    ELSE None

\* C20: for a daily series _buscar_taxa_por_codigo answers from the point
\* dated exactly the target date when there is one, otherwise from the
\* most recent point dated on or before it, otherwise from the last
\* returned point; a later point is never taken while an earlier or equal
\* one exists.
C20_SelecaoDiaria ==
    BuscaDiariaFeita =>
        /\ ret.val = ValorEsperado(args, PontoEsperado(args))
        /\ ret.val # None => ret.ponto = PontoEsperado(args)
        /\ (ret.ponto # 0 /\ PontosAte(args) # {}) => ret.ponto \in PontosAte(args)

\* C20 witness: no point is dated the target date, one is dated before it
\* and one after it, and the answer is the rate of the earlier point.
C20_Witness ==
    /\ BuscaDiariaFeita /\ PontosExatos(args) = {}
    /\ PontosAte(args) # {}
    /\ PontosAte(args) # 1..Len(args.resposta.dados)
    /\ ret.val # None
    /\ ret.val = ValorEsperado(args, MaisRecente(args, PontosAte(args)))

\* every point is dated after the target date and the answer is the rate
\* of the last returned point
C20_TodosDepois ==
    /\ BuscaDiariaFeita /\ PontosAte(args) = {}
    /\ Len(args.resposta.dados) >= 2
    /\ ret.val = ValorEsperado(args, Len(args.resposta.dados))
    /\ ret.val # None

\* _buscar_taxa_por_codigo has returned on a monthly series
BuscaMensalFeita == Done("buscar_taxa_por_codigo") /\ ~args.diaria

\* the points of the response tagged with the month of the target date
PontosDoMes(a) ==
    {k \in 1..Len(a.resposta.dados) :
        /\ a.resposta.dados[k].data.fmt = "br"
        /\ a.resposta.dados[k].data.dt.m = a.data.m
        /\ a.resposta.dados[k].data.dt.y = a.data.y}

\* the last returned of the points ks
UltimoDe(ks) == CHOOSE k \in ks : \A j \in ks : j <= k

\* the response is a non-empty array whose points all carry a data tag
RespostaComDatas(a) ==
    /\ a.resposta.tipo = "ok" /\ a.resposta.dados # <<>>
    /\ \A k \in 1..Len(a.resposta.dados) : a.resposta.dados[k].data.fmt # "none"

\* C21: for a monthly series _buscar_taxa_por_codigo requests the days
\* from the first to the last of the target date's month (31 for December,
\* 29 for February of a leap year) and answers from the last returned
\* point tagged with that month, or from the last returned point when no
\* point is.
C21_SelecaoMensal ==
    BuscaMensalFeita =>
        /\ ret.pedido.inicio = Date(args.data.y, args.data.m, 1)
        /\ ret.pedido.fim = Date(args.data.y, args.data.m,
                                 DaysInMonth(args.data.y, args.data.m))
        /\ RespostaComDatas(args) =>
              ret.val = ValorEsperado(args,
                           IF PontosDoMes(args) # {}
                           THEN UltimoDe(PontosDoMes(args))
                           ELSE Len(args.resposta.dados))

\* C21 witness: two points of the target month are followed by a point of
\* the next month, and the answer is the rate of the second.
C21_Witness ==
    /\ BuscaMensalFeita /\ RespostaComDatas(args)
    /\ PontosDoMes(args) = {1, 2} /\ Len(args.resposta.dados) = 3
    /\ ret.val # None
    /\ ret.val = ValorEsperado(args, 2)

\* the request for a February of a leap year ends on the 29th
C21_Bissexto ==
    /\ BuscaMensalFeita /\ args.data = Date(2024, 2, 10)
    /\ ret.pedido = [inicio |-> Date(2024, 2, 1), fim |-> Date(2024, 2, 29)]

\* the request for a December ends on the 31st, and with no point of the
\* month the answer is the rate of the last returned point
C21_Dezembro ==
    /\ BuscaMensalFeita /\ args.data = Date(2023, 12, 10)
    /\ ret.pedido.fim = Date(2023, 12, 31)
    /\ RespostaComDatas(args) /\ PontosDoMes(args) = {}
    /\ Len(args.resposta.dados) = 2
    /\ ret.val # None /\ ret.val = ValorEsperado(args, 2)

\* one of the lookups of the rate series client has returned
BuscaFeita ==
    /\ pc = "done"
    /\ op \in {"buscar_taxa_por_codigo", "buscar_taxa_selic", "buscar_cdi",
               "buscar_ipca"}

\* the lookup was on a daily series
SerieDiaria ==
    \/ op = "buscar_cdi"
    \/ op \in {"buscar_taxa_por_codigo", "buscar_taxa_selic"} /\ args.diaria

\* the request failed, the status was an error, the body was no JSON or the
\* array was empty
RespostaFalha(r) == r.tipo # "ok" \/ r.dados = <<>>

\* no point of the response has a numeric valor
SemValorNumerico(r) ==
    r.tipo = "ok" /\ \A k \in 1..Len(r.dados) : r.dados[k].valor.tipo # "num"

\* no point is dated the target date and the last point's data is no date,
\* so the scan of a daily series fails on it
DataIlegivel(r, data) ==
    /\ r.tipo = "ok" /\ r.dados # <<>>
    /\ r.dados[Len(r.dados)].data.fmt # "br"
    /\ \A k \in 1..Len(r.dados) : ~DataIgual(r.dados[k], data)

\* C22: the rate series client never raises; a network error, an HTTP error
\* status, a body that is no JSON, an empty array, a point whose valor is
\* no number and a point whose date cannot be read all give None.
C22_ClienteNuncaPropaga ==
    BuscaFeita =>
        /\ ret.exc = "none"
        /\ RespostaFalha(args.resposta) => ret.val = None
        /\ SemValorNumerico(args.resposta) => ret.val = None
        /\ (SerieDiaria /\ DataIlegivel(args.resposta, args.data))
              => ret.val = None

\* C22 witness: buscar_cdi got a point with a number after a point whose
\* data is no date: the scan fails on the unreadable date and the lookup
\* returns None without raising.
C22_Witness ==
    /\ Done("buscar_cdi") /\ DataIlegivel(args.resposta, args.data)
    /\ ~SemValorNumerico(args.resposta)
    /\ ret.exc = "none" /\ ret.val = None

\* buscar_taxa_selic on a failed request returns None
C22_FalhaDeRede ==
    /\ Done("buscar_taxa_selic") /\ args.resposta.tipo = "rede"
    /\ ret.exc = "none" /\ ret.val = None

\* buscar_ipca on a point with a non-numeric valor returns None
C22_ValorInvalido ==
    /\ Done("buscar_ipca") /\ args.resposta.tipo = "ok"
    /\ Len(args.resposta.dados) = 1
    /\ args.resposta.dados[1].valor.tipo = "invalido"
    /\ ret.exc = "none" /\ ret.val = None

\* _aplicar_recalculo_bacen has returned after calling the recalculator
AplicacaoFeita ==
    Done("aplicar_recalculo_bacen") /\ DadosSuficientes(args.result)

\* the recalculator raised, or its report has sucesso false
RecalculoFalhou == IsNone(recalculo) \/ ~Val(recalculo).sucesso

\* C23: _aplicar_recalculo_bacen never raises; when the recalculator
\* raises or reports sucesso false the extraction result comes back with
\* every field as it was and no report attached; a report is attached only
\* when it has sucesso true.
C23_FalhaNaoAfetaExtracao ==
    Done("aplicar_recalculo_bacen") =>
        /\ ret.exc = "none"
        /\ (AplicacaoFeita /\ RecalculoFalhou) => ret.result = args.result
        /\ ~IsNone(ret.result.recalculo_bacen) =>
              /\ AplicacaoFeita /\ ~IsNone(recalculo)
              /\ ret.result.recalculo_bacen = recalculo
              /\ Val(recalculo).sucesso
        /\ \A f \in DOMAIN args.result \ {"recalculo_bacen", "observacoes"} :
              ret.result[f] = args.result[f]

\* C23 witness: the recalculator reported sucesso false on a contract with
\* a negative rate, and the result came back untouched.
C23_Witness ==
    /\ AplicacaoFeita /\ ~IsNone(recalculo) /\ ~Val(recalculo).sucesso
    /\ ret.exc = "none" /\ ret.result = args.result
    /\ IsNone(ret.result.recalculo_bacen)

\* the recalculator raised and the result came back untouched
C23_Levanta ==
    /\ AplicacaoFeita /\ args.recalculador = "levanta" /\ IsNone(recalculo)
    /\ ret.exc = "none" /\ ret.result = args.result

\* the recalculator succeeded and its report is attached
C23_Anexado ==
    /\ AplicacaoFeita /\ ~IsNone(recalculo) /\ Val(recalculo).sucesso
    /\ ret.result.recalculo_bacen = recalculo
    /\ ret.result.observacoes # args.result.observacoes

\* calcular_tabela_price has returned on a positive principal, a count of
\* at least one and a rate of zero
PriceSemJuros ==
    /\ Done("calcular_tabela_price")
    /\ args.taxa = 0 /\ args.pv > 0 /\ args.n >= 1

\* C24: at rate 0 calcular_tabela_price returns principal / count as the
\* instalment (to the cent), an interest portion of 0 in every entry and a
\* total interest of 0; R$ 12.000,00 in 12 instalments gives exactly
\* R$ 1.000,00 and R$ 0,00.
C24_TaxaZeroParcelasIguais ==
    PriceSemJuros =>
        /\ ret.exc = "none"
        /\ 2 * Abs(FromCents(ret.valor_parcela) * args.n - args.pv)
              <= args.n * CentUnit
        /\ Len(ret.parcelas) = args.n
        /\ \A k \in 1..Len(ret.parcelas) : ret.parcelas[k].juros = 0
        /\ ret.total_juros = 0
        /\ (args.pv = 12000 * MU /\ args.n = 12) =>
              /\ ret.valor_parcela = 100000
              /\ \A k \in 1..12 : ret.parcelas[k].valor_parcela = 100000

\* C24 witness: R$ 12.000,00 in 12 instalments at rate 0 gave R$ 1.000,00
\* and no interest.
C24_Witness ==
    /\ PriceSemJuros /\ args.pv = 12000 * MU /\ args.n = 12
    /\ ret.exc = "none" /\ ret.valor_parcela = 100000 /\ ret.total_juros = 0

\* R$ 1.000,00 in 3 instalments at rate 0 gives R$ 333,33
C24_Dizima ==
    /\ PriceSemJuros /\ args.pv = 1000 * MU /\ args.n = 3
    /\ ret.valor_parcela = 33333 /\ ret.total_juros = 0

\* calcular_tabela_price has returned on R$ 50.000,00 at 2.5 % a month in
\* 60 instalments
PriceReferencia ==
    /\ Done("calcular_tabela_price")
    /\ args.pv = 50000 * MU /\ args.taxa = (25 * RU) \div 10 /\ args.n = 60

\* C25 as stated: the reference call returns an instalment of about
\* R$ 1.583,95, a total paid of about R$ 95.037,00 and 60 entries; read
\* with a margin of R$ 1,00.
C25_ReferenciaOriginal ==
    PriceReferencia =>
        /\ ret.exc = "none"
        /\ Abs(ret.valor_parcela - 158395) <= 100
        /\ Abs(ret.total_pago - 9503700) <= 100
        /\ Len(ret.parcelas) = 60

\* C25: calcular_tabela_price(50000, 2.5, 60) returns an instalment of
\* R$ 1.617,67, a total paid of R$ 97.060,19 to within five cents, and a
\* schedule of exactly 60 entries.
C25_ReferenciaPrice ==
    PriceReferencia =>
        /\ ret.exc = "none"
        /\ ret.valor_parcela = 161767
        /\ Abs(ret.total_pago - 9706019) <= 5
        /\ Len(ret.parcelas) = 60
        /\ \A k \in 1..60 : ret.parcelas[k].numero = k
        /\ ret.parcelas[60].saldo_devedor = 0

\* C25 witness: the reference call has returned its 60 entries.
C25_Witness ==
    /\ PriceReferencia /\ ret.exc = "none"
    /\ Len(ret.parcelas) = 60 /\ ret.valor_parcela = 161767

\* recalcular_contrato has returned a report with sucesso false
RecalculoSemSucesso ==
    Done("recalcular_contrato") /\ ret.exc = "none" /\ ~ret.sucesso

\* C27: every report of recalcular_contrato with sucesso false has
\* recalculo_price, recalculo_sac and comparacao all null, whichever step
\* failed.
C27_FalhaSemResultadosParciais ==
    RecalculoSemSucesso =>
        /\ IsNone(ret.recalculo_price)
        /\ IsNone(ret.recalculo_sac)
        /\ IsNone(ret.comparacao)

\* a failed report that carries both schedules and the comparison: the
\* conversion of the contract rate to a yearly rate overflowed
C27_ParciaisNaFalha ==
    /\ RecalculoSemSucesso /\ ret.erro = Some("OverflowError")
    /\ ~IsNone(ret.recalculo_price) /\ ~IsNone(ret.recalculo_sac)
    /\ ~IsNone(ret.comparacao)

\* a failure at the rate check, at the detection or at the Price schedule
\* leaves the three fields null
C27_FalhaAntesDasTabelas ==
    (RecalculoSemSucesso /\ ret.erro # Some("OverflowError")) =>
        /\ IsNone(ret.recalculo_price)
        /\ IsNone(ret.recalculo_sac)
        /\ IsNone(ret.comparacao)

\* the report the call i of the interleaving returns
Retornado(i) == ret[Quadro(i)].resultado

\* the report the same call returns when it runs alone
Sozinha(a) ==
    recalcular_contrato(a.pv, a.taxa, a.n, a.parcela, a.dcontr, a.dprim,
                        a.tipo_taxa, a.idx, a.met, a.lookup, a.hoje)

C26_AmbasTerminam ==
    /\ op = "recalcular_concorrente"
    /\ pc[1] = "fim" /\ pc[2] = "fim"
    /\ Retornado(1).sucesso /\ ~Retornado(2).sucesso

\* the report r records no call of the rate series client
SemConsulta(r) ==
    \A k \in 1..Len(r.passos) :
        r.passos[k] \notin {"buscar_taxa_selic", "buscar_cdi"}

CamposBacenNulos(r) ==
    IsNone(r.taxa_bacen) /\ IsNone(r.diferenca_taxa)
        /\ IsNone(r.aviso_taxa_posfixada)

\* the report attached to the record the extraction path returns
Anexado ==
    IF op = "aplicar_recalculo_bacen" THEN ret.result.recalculo_bacen
    ELSE IF ret.exc = "none" THEN Val(ret.result).recalculo_bacen
    ELSE None

\* C28: on the extraction path (_aplicar_recalculo_bacen alone or inside
\* extract_from_text) and in validar_contrato the recalculation makes no
\* call of the rate series client, and a report attached to the extracted
\* record has null taxa_bacen, diferenca_taxa and aviso_taxa_posfixada.
C28_ExtracaoSemConsulta ==
    pc = "done" =>
        /\ op \in {"aplicar_recalculo_bacen", "extract_from_text"} =>
              /\ ~IsNone(recalculo) =>
                    SemConsulta(Val(recalculo)) /\ CamposBacenNulos(Val(recalculo))
              /\ ~IsNone(Anexado) =>
                    SemConsulta(Val(Anexado)) /\ CamposBacenNulos(Val(Anexado))
        /\ op = "validar_contrato" =>
              (~IsNone(recalculo) => SemConsulta(Val(recalculo)))

\* C28 witness: extract_from_text returned a record with a successful
\* report attached, while a lookup would have been answered.
C28_Witness ==
    /\ op = "extract_from_text" /\ pc = "done"
    /\ Truthy(args.lookup)
    /\ ~IsNone(Anexado) /\ Val(Anexado).sucesso
    /\ Val(Anexado).passos # <<>>

\* validar_contrato built its validation on a successful report
C28_Validacao ==
    /\ op = "validar_contrato" /\ pc = "done"
    /\ ~IsNone(recalculo) /\ Val(recalculo).sucesso

\* extract_from_text ran on a text that is not empty
ExtracaoFeita ==
    op = "extract_from_text" /\ pc = "done" /\ args.text.limpo > 0

NumChamadas == Len(ret.chamadas)

\* the max_chars of the calls made, in order
TamanhosPedidos == [k \in 1..NumChamadas |-> ret.chamadas[k].max_chars]

EhPrefixo(s, t) == Len(s) <= Len(t) /\ s = SubSeq(t, 1, Len(s))

FalhouTokens(k) == ~ret.saidas[k].ok /\ ret.saidas[k].tokens

\* After the first call: 2000, 1500, 1000 in that order; a success ends
\* the run with a record, an error that is no token-limit error ends it
\* with that very error, a token-limit error leads to the next size or,
\* after 1000, to the "too large" error.
ReducaoProgressiva ==
    /\ NumChamadas >= 2
    /\ EhPrefixo(TamanhosPedidos, <<3000, 2000, 1500, 1000>>)
    /\ \A k \in 2..NumChamadas :
          \/ /\ ret.saidas[k].ok
             /\ k = NumChamadas /\ ret.exc = "none" /\ ~IsNone(ret.result)
          \/ /\ FalhouTokens(k)
             /\ IF k < 4 THEN NumChamadas > k ELSE ret.msg = "muito_grande"
          \/ /\ ~ret.saidas[k].ok /\ ~ret.saidas[k].tokens
             /\ k = NumChamadas /\ ret.msg = "propagado"
             /\ ret.exc = ret.saidas[k].classe
             /\ ret.causa = Some(ret.saidas[k])
    /\ ret.msg = "muito_grande" =>
          NumChamadas = 4 /\ \A k \in 2..4 : FalhouTokens(k)

\* After the first call: the same size again, then 2000; a success ends
\* the run, the second failure is reported.
RetentativaParse ==
    /\ NumChamadas \in 2..3
    /\ EhPrefixo(TamanhosPedidos, <<3000, 3000, 2000>>)
    /\ \A k \in 2..NumChamadas :
          IF ret.saidas[k].ok
          THEN k = NumChamadas /\ ret.exc = "none" /\ ~IsNone(ret.result)
          ELSE k = 3 => ret.msg = "json_invalido"
    /\ NumChamadas = 2 => ret.saidas[2].ok

ChamadasLimitadas ==
    /\ NumChamadas \in 1..4
    /\ Len(ret.saidas) = NumChamadas
    /\ ret.chamadas[1].max_chars = 3000
    /\ ret.saidas[1].ok => NumChamadas = 1 /\ ret.exc = "none"
    /\ ret.exc = "none" => ret.saidas[NumChamadas].ok

\* C29, as stated: at most 4 LLM calls; a first error passing the
\* token-limit test is followed by 2000, 1500, 1000, and a first error
\* passing the parse test by 3000 and 2000.
C29_TokensSempreReduz ==
    ExtracaoFeita =>
        /\ ChamadasLimitadas
        /\ FalhouTokens(1) => ReducaoProgressiva
        /\ (~ret.saidas[1].ok /\ ret.saidas[1].parse) => RetentativaParse

\* C29, amended: at most 4 LLM calls; the parse test comes first, so a
\* first error passing it is followed by 3000 and 2000 whatever else its
\* message says, and only a first error passing the token-limit test and
\* not the parse test is followed by 2000, 1500, 1000.
C29_ParseAntesDeTokens ==
    ExtracaoFeita =>
        /\ ChamadasLimitadas
        /\ (FalhouTokens(1) /\ ~ret.saidas[1].parse) => ReducaoProgressiva
        /\ (~ret.saidas[1].ok /\ ret.saidas[1].parse) => RetentativaParse

\* C29 witness: three token-limit errors, then a fourth, and the "too
\* large" error after four calls.
C29_Witness ==
    /\ ExtracaoFeita
    /\ NumChamadas = 4 /\ \A k \in 1..4 : FalhouTokens(k)
    /\ ~ret.saidas[1].parse
    /\ TamanhosPedidos = <<3000, 2000, 1500, 1000>>
    /\ ret.msg = "muito_grande"

\* a retry error that is no token-limit error ends the run at once
C29_Propagado ==
    /\ ExtracaoFeita
    /\ NumChamadas = 3 /\ FalhouTokens(1) /\ FalhouTokens(2)
    /\ ret.msg = "propagado" /\ ret.exc = "APIConnectionError"

\* a first error passing both tests is retried as a parse error
C29_AmbosOsTestes ==
    /\ ExtracaoFeita
    /\ FalhouTokens(1) /\ ret.saidas[1].parse
    /\ TamanhosPedidos = <<3000, 3000, 2000>>
    /\ ret.msg = "json_invalido"

TruncamentoFeito == op = "truncar_texto_inteligente" /\ pc = "done"

\* the first 65 % of max_chars characters, the marker, the last 30 %
InicioMarcadorFim(texto, n, max_chars) ==
    /\ Len(texto) = 3
    /\ texto[1] = [parte |-> "texto", de |-> 1, ate |-> (65 * max_chars) \div 100]
    /\ texto[2].parte = "marcador"
    /\ texto[3] = [parte |-> "texto", de |-> n - (30 * max_chars) \div 100 + 1,
                   ate |-> n]

\* C30, as stated: a text of at most max_chars characters is returned
\* unchanged; a longer one becomes the first 65 % of max_chars characters,
\* the marker and the last 30 %, and is not longer than max_chars, for
\* max_chars 3000, 2000, 1500 and 1000.
C30_TruncadoCabeNoLimite ==
    TruncamentoFeito =>
        IF args.n <= args.max_chars
        THEN ret.texto = (IF args.n = 0 THEN <<>>
                          ELSE <<[parte |-> "texto", de |-> 1, ate |-> args.n]>>)
        ELSE /\ InicioMarcadorFim(ret.texto, args.n, args.max_chars)
             /\ Tamanho(ret.texto) <= args.max_chars

\* what holds: the same, with the length bound for 3000, 2000 and 1500
\* only; at 1000 the result has 1013 characters.
C30_CabeAcimaDeMil ==
    TruncamentoFeito =>
        IF args.n <= args.max_chars
        THEN ret.texto = (IF args.n = 0 THEN <<>>
                          ELSE <<[parte |-> "texto", de |-> 1, ate |-> args.n]>>)
        ELSE /\ InicioMarcadorFim(ret.texto, args.n, args.max_chars)
             /\ IF args.max_chars = 1000
                THEN Tamanho(ret.texto) = 1013
                ELSE Tamanho(ret.texto) <= args.max_chars

\* a text of 1001 characters comes back longer than it was
C30_MaisLongoQueOriginal ==
    /\ TruncamentoFeito
    /\ args.n = 1001 /\ args.max_chars = 1000
    /\ Tamanho(ret.texto) > args.n

\* the last retry of extract_from_text sends more than 1000 characters
C30_UltimaTentativaExcede ==
    /\ ExtracaoFeita /\ NumChamadas = 4
    /\ Tamanho(ret.chamadas[4].enviado) > ret.chamadas[4].max_chars

====
